---- MODULE Spec2Model ----
(***************************************************************************)
(* A model of miszen's protocol connection and event-dispatch core:        *)
(*   src/src/core/mcp_protocol.py      MCPConnection, MCPClient            *)
(*   src/src/adapters/zen_mcp_adapter.py  ZenMCPAdapter                    *)
(*   src/src/events/event_handler.py   EventHandler                        *)
(*   src/src/core/config.py            Config                              *)
(*                                                                         *)
(* asyncio is cooperative: a task runs from one suspension point (await of *)
(* something not yet done) to the next without interleaving.  Each action  *)
(* below is one such run.  CancelledError is a BaseException (Python 3.8   *)
(* and later), so "except Exception" does not catch it.                    *)
(*                                                                         *)
(* One MCPConnection object is modelled: the adapter connects at most once *)
(* in a behaviour.  The peer answers a request with a result or an error   *)
(* whose payload echoes the request's correlation id, so that a response   *)
(* delivered to the wrong caller is visible in the caller's outcome.       *)
(***************************************************************************)
EXTENDS Integers, Sequences, FiniteSets, TLC

\* Bound on the correlation ids a behaviour allocates (uuid4 in the code).
MaxReq == 3

Ids == 1..MaxReq
Users == {"u1", "u2"}
Tasks == Users \cup {"k", "w", "h"}
UserCommands == {"chat", "debug"}

\* Bound on the number of events a behaviour enqueues.
MaxAccepted == 3

\* Bounds on the histories given to get_command_stats: their length and the
\* execution time of a command, in seconds.
MaxHistory == 3
MaxTime == 3

\* Bound on lines_changed in the events given to matches_conditions.
MaxLines == 2

\* Bound on the number of notification handlers a behaviour registers.
MaxHandlers == 2

\* pre-processors and post-processors registered with a dispatcher
MaxPre == 1
MaxPost == 2

\* filters registered with a dispatcher
MaxFilters == 2

\* the scale of the dedup trim and the number of events marked processed
TrimKeep == 2
TrimLimit == 2 * TrimKeep
MaxMarked == 11

PreProcessors == {"identity", "raise"}
PostProcessors == {"record", "raise"}
\* filters: one that lets every event pass, one that drops every event, one
\* that lets error events pass, one that raises
FilterPool == {"accept", "reject", "errors_only", "raise"}

\* notification methods, and the handlers: one that returns, one that raises
Methods == {"progress", "log"}
Handlers == {"ok", "raise"}
\* an asynchronous handler that awaits send_request on the same connection
AsyncHandlers == {"request"}

VARIABLES
    \* ---- MCPConnection
    transport,          \* "none" | "open" | "closed": the stream (writer)
    peer,               \* "up" | "down": the remote end of the stream
    closed,             \* MCPConnection._closed
    read_task,          \* "none" | "running" | "handling" | "cancelling" | "done"
    pending_requests,   \* the keys of MCPConnection.pending_requests
    fut,                \* the future created for each correlation id
    wire,               \* the method of each request frame written
    nextId,             \* next fresh correlation id
    \* ---- the tasks that call send_request
    pc, req, tmo, cmd, out,
    \* ---- MCPConnection.close() in progress
    closePc, closeVia,
    \* ---- MCPClient / ZenMCPAdapter
    client,             \* "none" | "set": ZenMCPAdapter.client
    clientConn,         \* MCPClient.connection is not None
    adapterConn,        \* ZenMCPAdapter.connection is not None
    connected,          \* ZenMCPAdapter._connected
    history,            \* ZenMCPAdapter._command_history
    \* ---- EventHandler
    event_queue,        \* EventHandler.event_queue, oldest first
    running,            \* EventHandler._running
    wtask,              \* processing_task: "none" | "alive" | "cancelling" | "done"
    processed,          \* EventHandler._processed_events
    event_filters, pre_processors, post_processors,
    cur,                \* _process_events: the event as dequeued
    wev,                \* _process_single_event: the event after pre-processing
    ci,                 \* index of the command being executed
    cres,               \* command_results collected so far
    wres,               \* the EventProcessingResult, once built
    stopPc,             \* EventHandler.stop() in progress: "idle" | "joining"
    \* ---- observation of the dispatcher
    accepted,           \* event ids in the order handle_event enqueued them
    started,            \* event ids in the order the worker dequeued them
    results,            \* the results produced, in order
    postLog,            \* post-processor invocations, in order
    \* ---- MCPConnection: requests written and notifications
    sent_params,        \* the params of each request frame written
    notification_handlers,  \* MCPConnection.notification_handlers
    invoked,            \* handler calls made for the last notification frame
    \* ---- calls of pure functions: arguments and return values
    stats,              \* what get_command_stats returned
    mc_data, mc_conditions, mc_ret,  \* a call of MISEvent.matches_conditions
    fc_args, fc_ret,    \* a call of an event factory
    \* ---- observation of handle_event
    filterLog           \* the filter calls the last handle_event made, in order

connVars == <<transport, peer, closed, read_task, pending_requests, fut, wire, nextId>>
taskVars == <<pc, req, tmo, cmd, out>>
closeVars == <<closePc, closeVia>>
adapterVars == <<client, clientConn, adapterConn, connected, history>>
dispVars == <<event_queue, running, wtask, processed, event_filters, pre_processors,
              post_processors, cur, wev, ci, cres, wres, stopPc>>
obsVars == <<accepted, started, results, postLog>>
noteVars == <<notification_handlers, invoked>>
callVars == <<stats, mc_data, mc_conditions, mc_ret, fc_args, fc_ret, filterLog>>
progVars == <<connVars, taskVars, closeVars, adapterVars, dispVars, obsVars>>
vars == <<progVars, sent_params, noteVars, callVars>>

RECURSIVE SumLen(_, _)
SumLen(f, S) ==
    IF S = {} THEN 0
    ELSE LET x == CHOOSE y \in S : TRUE IN Len(f[x]) + SumLen(f, S \ {x})

\* the number of handlers registered
Registered == SumLen(notification_handlers, DOMAIN notification_handlers)

----------------------------------------------------------------------------
\* Values

NoFut == [st |-> "none", val |-> 0]
PendingFut == [st |-> "pending", val |-> 0]
NoOut == [kind |-> "none"]
NoMethod == <<>>

\* MCPError(code, message) as send_request raises it; val is the error's code
McpErr(m, v) == [kind |-> "mcp", msg |-> m, val |-> v]
\* any other Exception out of send_request
ExcErr(m) == [kind |-> "exc", msg |-> m, val |-> 0]
OkOut(v) == [kind |-> "ok", msg |-> "", val |-> v]
Suspended == [kind |-> "suspended", msg |-> "", val |-> 0]

ZenMethod(c) == <<"zen__", c>>

\* MCPRequest(method, params): params or {}
NoParams == [k \in {} |-> 0]

\* the params of the initialize request
InitializeParams ==
    [protocolVersion |-> "1.0", clientInfo |-> [name |-> "miszen", version |-> "0.1.0"]]

\* the params a direct caller of execute_command passes
UserParams == [prompt |-> "hi"]

\* MCPMessage as parsed by from_dict: absent fields are 0 / NoMethod; an error
\* field is n > 0 for the object {"code": n, ...}, or NotAnObject for a JSON
\* value that is truthy but no object (a string, a number, a list)
NotAnObject == -1

Response(i, ok) ==
    [id |-> i, method |-> NoMethod,
     result |-> IF ok THEN i ELSE 0, error |-> IF ok THEN 0 ELSE i]
Notification(m) == [id |-> 0, method |-> <<m>>, result |-> 0, error |-> 0]
ErrorNotObject(i) == [id |-> i, method |-> NoMethod, result |-> 0, error |-> NotAnObject]

\* ---- events (MISEvent); strings that are inspected are character sequences
PyPath == <<"a", ".", "p", "y">>

\* the members of the enums and their values
EventPriority == [LOW |-> "low", MEDIUM |-> "medium", HIGH |-> "high", CRITICAL |-> "critical"]
EventCategory ==
    [FILE_SYSTEM |-> "file_system", CODE_CHANGE |-> "code_change", ERROR |-> "error",
     TEST |-> "test", SECURITY |-> "security", WORKFLOW |-> "workflow", SYSTEM |-> "system"]

\* EventMetadata: priority and category are enum members
Meta(src, prio, cat) == [source |-> src, priority |-> prio, category |-> cat]

\* EventMetadata.to_dict: the enum members become their values
to_dict(m) ==
    [source |-> m.source, priority |-> EventPriority[m.priority],
     category |-> EventCategory[m.category]]

MISEvent(id, type, data, meta) ==
    [event_id |-> id, event_type |-> type, data |-> data, metadata |-> meta]

NoData == [none |-> 0]

NoEvent == MISEvent(0, "", NoData, Meta("", "MEDIUM", "SYSTEM"))

\* the events the producers hand to handle_event
EventPool ==
    { MISEvent(1, "error_detected",
               [error_message |-> "boom", severity |-> "critical"],
               Meta("error_handler", "CRITICAL", "ERROR")),
      MISEvent(2, "code_changed",
               [file_path |-> PyPath, lines_changed |-> 5, change_type |-> "modification"],
               Meta("code_monitor", "MEDIUM", "CODE_CHANGE")) }

\* a lines_changed that is not a number (None, a string)
NotANumber == -1

\* an event whose lines_changed is None
BadLinesEvent ==
    MISEvent(3, "code_changed",
             [file_path |-> PyPath, lines_changed |-> NotANumber, change_type |-> "modification"],
             Meta("code_monitor", "MEDIUM", "CODE_CHANGE"))

EventProcessingResult(ev, trig, crs, ok, err) ==
    [event |-> ev, triggered_commands |-> trig, command_results |-> crs,
     success |-> ok, error |-> err]

NoResult == EventProcessingResult(NoEvent, <<>>, <<>>, FALSE, "none")

\* ---- the parameters of a command (EventHandler._prepare_command_params)

\* Python's None, where a string is expected
None == "None"

\* dict.get(key, default)
Get(data, key, default) == IF key \in DOMAIN data THEN data[key] ELSE default

UnknownFile == <<"unknown file">>

\* formatted strings are kept as the tuple of their parts
_generate_step_description(command, event) ==
    CASE command = "analyze" -> <<"Analyze", event.event_type, "event:", event.data>>
      [] command = "debug" ->
           <<"Debug issue from", event.event_type,
             Get(event.data, "error_message", "Unknown error")>>
      [] command = "codereview" ->
           <<"Review code changes in", Get(event.data, "file_path", UnknownFile)>>
      [] command = "refactor" ->
           <<"Refactor code in", Get(event.data, "file_path", UnknownFile)>>
      [] command = "testgen" ->
           <<"Generate tests for", Get(event.data, "file_path", UnknownFile)>>
      [] command = "docgen" ->
           <<"Generate documentation for", Get(event.data, "file_path", UnknownFile)>>
      [] OTHER -> <<"Process", event.event_type, "event">>

_generate_chat_prompt(event) ==
    CASE event.event_type = "error_detected" ->
           <<"Help me understand this error:",
             Get(event.data, "error_message", "Unknown error")>>
      [] event.event_type = "file_created" ->
           <<"What should I consider for the new file:",
             Get(event.data, "file_path", UnknownFile)>>
      [] OTHER -> <<"Process event", event.event_type, "with data:", event.data>>

_generate_analysis_context(event) ==
    <<"Deep analysis required for", event.event_type, event.data,
      EventPriority[event.metadata.priority]>>

_generate_trace_target(event) ==
    IF "error_message" \in DOMAIN event.data /\ "stack_trace" \in DOMAIN event.data
      THEN <<"Trace error:", event.data["error_message"], "from stack trace">>
    ELSE IF "file_path" \in DOMAIN event.data
      THEN <<"Trace execution flow in", event.data["file_path"]>>
    ELSE <<"Trace event flow for", event.event_type>>

_generate_security_context(event) ==
    <<"Security audit triggered by", event.event_type,
      Get(event.data, "description", "Security concern detected")>>

\* the part of the parameters that depends on the command's family
FamilyParams(command, event) ==
    CASE command \in {"analyze", "debug", "codereview", "refactor", "testgen", "docgen"} ->
           [step |-> _generate_step_description(command, event)] @@
           (IF "file_path" \in DOMAIN event.data
              THEN [relevant_files |-> <<event.data["file_path"]>>]
              ELSE NoParams)
      [] command = "chat" -> [prompt |-> _generate_chat_prompt(event)]
      [] command = "thinkdeep" ->
           [step |-> _generate_analysis_context(event), thinking_mode |-> "high"]
      [] command = "tracer" -> [target_description |-> _generate_trace_target(event)]
      [] command = "secaudit" ->
           [step |-> _generate_security_context(event), audit_focus |-> "comprehensive"]
      [] OTHER -> NoParams

\* params['context'], added for every command
Context(event) ==
    [event_type |-> event.event_type, event_data |-> event.data,
     event_metadata |-> to_dict(event.metadata)]

\* faulty variant: the context is added in the branch of the workflow commands only
_prepare_command_params_WorkflowOnly(command, event) ==
    IF command \in {"analyze", "debug", "codereview", "refactor", "testgen", "docgen"}
      THEN [context |-> Context(event)] @@ FamilyParams(command, event)
      ELSE FamilyParams(command, event)

_prepare_command_params(command, event) ==
    [context |-> Context(event)] @@ FamilyParams(command, event)

\* faulty variant: only the most capable tier is told apart
_get_default_model_TwoTiers(command) ==
    IF command \in {"thinkdeep", "secaudit", "consensus"} THEN "gemini-2.5-pro"
    ELSE "o3-mini"

\* ---- ZenMCPAdapter: the default model of a command
_get_default_model(command) ==
    IF command \in {"thinkdeep", "secaudit", "consensus"} THEN "gemini-2.5-pro"
    ELSE IF command \in {"chat", "listmodels", "version"} THEN "gemini-2.5-flash"
    ELSE "o3-mini"

\* execute_command: params['model'] is filled in when the caller gave none
WithModel(command, params) ==
    IF "model" \in DOMAIN params THEN params
    ELSE params @@ [model |-> _get_default_model(command)]

\* ---- MCPConnection.notification_handlers and get_command_stats, before use
NoHandlers == [m \in {} |-> <<>>]
NoStats == [c \in {} |-> 0]

\* the worker is between two suspension points: no other task runs
WorkerBusy == pc["w"] \in {"w_cmd", "w_finish"}

Waiting(t) == pc[t] \in {"sr_wait", "ex_wait", "hs_wait", "w_wait", "nh_wait"}

----------------------------------------------------------------------------
\* ZenCommandResult

CommandResult(c, ok, r, e) == [command |-> c, success |-> ok, result |-> r, error |-> e]

\* execute_command: the result built on each path out of the try block
ExecResult(c, o) ==
    CASE o.kind = "ok" -> CommandResult(c, TRUE, o.val, <<>>)
      [] o.kind = "timeout" -> CommandResult(c, FALSE, 0, <<"Command", c, "timed out after">>)
      [] o.kind = "mcp" -> CommandResult(c, FALSE, 0, <<"MCP error in", c, o.msg>>)
      [] OTHER -> CommandResult(c, FALSE, 0, <<"Unexpected error in", c, o.msg>>)

\* faulty variant: the MCPError branch leaves e.message out of the error string
ExecOutcomeNoMessage(c, o) ==
    [kind |-> "returned",
     res |-> IF o.kind = "mcp" THEN CommandResult(c, FALSE, 0, <<"MCP error in", c>>)
             ELSE ExecResult(c, o)]

\* faulty variant: no catch-all branch: an unexpected exception leaves execute_command
ExecOutcomeNoCatchAll(c, o) ==
    IF o.kind \in {"ok", "timeout", "mcp"}
      THEN [kind |-> "returned", res |-> ExecResult(c, o)]
      ELSE [kind |-> "raised", msg |-> o.msg, val |-> 0]

\* execute_command on a connected adapter: every path returns its result
ExecOutcome(c, o) == [kind |-> "returned", res |-> ExecResult(c, o)]

\* execute_command on an adapter that is not connected
\* (RuntimeError, carried by its message)
NotConnectedOutcome == [kind |-> "raised", msg |-> "Not connected to zen-MCP server", val |-> 0]

\* faulty variant: only the success path appends to the history
HistoryAfterSuccessOnly(r) == IF r.success THEN Append(history, r) ELSE history

\* self._command_history.append(command_result)
HistoryAfter(r) == Append(history, r)

\* Config.zen_mcp.command_timeout: json.loads of ZEN_MCP_TIMEOUTS, "{}" when unset
command_timeout == [c \in {} |-> 0]

\* DefaultTimeout is the fallback of Config.get_zen_command_timeout, in seconds
DefaultTimeout == 60

get_zen_command_timeout(c) ==
    IF c \in DOMAIN command_timeout THEN command_timeout[c] ELSE DefaultTimeout

\* wait_for(future, timeout=timeout) arms a timer unless timeout is None
HasTimer(seconds) == seconds > 0

----------------------------------------------------------------------------
\* MCPConnection

\* _send_message: what the synchronous part of send_request ends in
SendOutcome(wfail) ==
    IF closed THEN McpErr("Connection is closed", -32000)
    ELSE IF wfail THEN ExcErr("ConnectionResetError")
    ELSE Suspended

\* send_request up to its first suspension: allocate the id, register the
\* future, write the frame; a failure of the write pops the entry again.
send_request(t, method, params, timeout, wfail) ==
    LET id == nextId
        o == SendOutcome(wfail)
    IN  /\ nextId <= MaxReq
        /\ wfail => (peer = "down" /\ ~closed)
        /\ nextId' = nextId + 1
        /\ req' = [req EXCEPT ![t] = id]
        /\ tmo' = [tmo EXCEPT ![t] = timeout]
        /\ wire' = IF closed THEN wire ELSE [wire EXCEPT ![id] = method]
        /\ sent_params' = IF closed THEN sent_params
                          ELSE [sent_params EXCEPT ![id] = params]
        /\ IF o = Suspended
             THEN /\ pending_requests' = pending_requests \cup {id}
                  /\ fut' = [fut EXCEPT ![id] = PendingFut]
             ELSE /\ pending_requests' = pending_requests
                  /\ fut' = [fut EXCEPT ![id] = [st |-> "abandoned", val |-> 0]]

\* what the caller suspended in wait_for resumes with
SrOutcome(f) ==
    CASE f.st = "result" -> OkOut(f.val)
      [] f.st = "error" -> McpErr("remote", f.val)
      [] f.st = "closed" -> McpErr("Connection closed", -32000)
      [] f.st = "cancelled" -> McpErr("Request timeout for method", -32000)

\* faulty variant: the TimeoutError branch forgets to pop the entry
PendingAfterResumeKeepTimedOut(t) ==
    IF fut[req[t]].st \in {"result", "cancelled"} THEN pending_requests
    ELSE pending_requests \ {req[t]}

\* faulty variant: the except Exception branch forgets to pop the entry
PendingAfterResumeKeepFailed(t) ==
    IF fut[req[t]].st \in {"result", "error", "closed"} THEN pending_requests
    ELSE pending_requests \ {req[t]}

\* send_request after the wait: the except blocks pop the entry
PendingAfterResume(t) ==
    IF fut[req[t]].st = "result" THEN pending_requests
    ELSE pending_requests \ {req[t]}

\* faulty variant: a response completes the oldest pending request, whatever its id
HandleMessageOldestFirst(m) ==
    IF m.id # 0 /\ pending_requests # {}
      THEN LET o == CHOOSE i \in pending_requests : \A j \in pending_requests : i <= j
           IN  [pending |-> pending_requests \ {o},
                fut |-> IF fut[o].st # "pending" \/ m.error = NotAnObject
                          THEN fut
                          ELSE IF m.error # 0
                            THEN [fut EXCEPT ![o] = [st |-> "error", val |-> m.error]]
                            ELSE [fut EXCEPT ![o] = [st |-> "result", val |-> m.result]]]
      ELSE [pending |-> pending_requests, fut |-> fut]

\* _handle_message on the pending map and the futures
HandleMessage(m) ==
    IF m.id # 0 /\ m.id \in pending_requests
      THEN [pending |-> pending_requests \ {m.id},
            fut |-> IF m.error = NotAnObject
                      THEN fut    \* message.error.get: AttributeError, logged by _read_loop
                    ELSE IF fut[m.id].st # "pending"
                      THEN fut    \* InvalidStateError, logged by _read_loop
                      ELSE IF m.error # 0
                        THEN [fut EXCEPT ![m.id] = [st |-> "error", val |-> m.error]]
                        ELSE [fut EXCEPT ![m.id] = [st |-> "result", val |-> m.result]]]
      ELSE [pending |-> pending_requests, fut |-> fut]

\* faulty variant: the first handler that raises ends the loop over the handlers
RECURSIVE InvokeFromStopAtRaise(_, _, _)
InvokeFromStopAtRaise(method, handlers, k) ==
    IF k > Len(handlers) THEN <<>>
    ELSE <<[method |-> method, index |-> k, handler |-> handlers[k]]>> \o
         (IF handlers[k] = "raise" THEN <<>>
          ELSE InvokeFromStopAtRaise(method, handlers, k + 1))

\* _handle_message's loop over the handlers from index k: each handler is
\* called, and an exception it raises is logged
RECURSIVE InvokeFrom(_, _, _)
InvokeFrom(method, handlers, k) ==
    IF k > Len(handlers) THEN <<>>
    ELSE <<[method |-> method, index |-> k, handler |-> handlers[k]]>> \o
         InvokeFrom(method, handlers, k + 1)

\* _handle_message: the handler calls a frame leads to
NotifyHandlers(m) ==
    IF m.id # 0 /\ m.id \in pending_requests THEN <<>>
    ELSE IF m.method # NoMethod
      THEN InvokeFrom(m.method[1], Get(notification_handlers, m.method[1], <<>>), 1)
    ELSE <<>>

\* faulty variant: only the oldest pending request is failed
FailPendingOldestOnly ==
    [i \in Ids |-> IF i \in pending_requests /\ fut[i].st = "pending"
                       /\ \A j \in pending_requests : i <= j
                     THEN [st |-> "closed", val |-> -32000]
                     ELSE fut[i]]

\* _read_loop's finally block
FailPending ==
    [i \in Ids |-> IF i \in pending_requests /\ fut[i].st = "pending"
                     THEN [st |-> "closed", val |-> -32000]
                     ELSE fut[i]]

\* the wait_for timer of a request expires: wait_for cancels the future
TimeoutFire(t) ==
    /\ UNCHANGED <<sent_params, noteVars, callVars>>
    /\ ~WorkerBusy
    /\ UNCHANGED <<dispVars, obsVars>>
    /\ Waiting(t) /\ tmo[t]
    /\ fut[req[t]].st = "pending"
    /\ fut' = [fut EXCEPT ![req[t]] = [st |-> "cancelled", val |-> 0]]
    /\ UNCHANGED <<transport, peer, closed, read_task, pending_requests, wire, nextId>>
    /\ UNCHANGED <<taskVars, closeVars, adapterVars>>

\* faulty variant: the handlers run in tasks of their own and the reader
\* goes on reading
ReaderReadyWhileHandling == read_task \in {"running", "handling"}

\* _read_loop is at readline: _handle_message and the handlers it awaits
\* run inside the loop, so the reader reads nothing while one is suspended
ReaderReady == read_task = "running"

\* _read_loop reads one response frame
ReadResponse(i, ok) ==
    /\ UNCHANGED <<sent_params, noteVars, callVars>>
    /\ ~WorkerBusy
    /\ UNCHANGED <<dispVars, obsVars>>
    /\ ReaderReady /\ peer = "up"
    /\ wire[i] # NoMethod
    /\ LET h == HandleMessage(Response(i, ok))
       IN  /\ pending_requests' = h.pending
           /\ fut' = h.fut
    /\ UNCHANGED <<transport, peer, closed, read_task, wire, nextId>>
    /\ UNCHANGED <<taskVars, closeVars, adapterVars>>

\* the peer closes the stream
PeerClose ==
    /\ UNCHANGED <<sent_params, noteVars, callVars>>
    /\ ~WorkerBusy
    /\ UNCHANGED <<dispVars, obsVars>>
    /\ transport = "open" /\ peer = "up"
    /\ peer' = "down"
    /\ UNCHANGED <<transport, closed, read_task, pending_requests, fut, wire, nextId>>
    /\ UNCHANGED <<taskVars, closeVars, adapterVars>>

\* _read_loop reads end-of-stream: break, then the finally block
ReadEOF ==
    /\ UNCHANGED <<sent_params, noteVars, callVars>>
    /\ ~WorkerBusy
    /\ UNCHANGED <<dispVars, obsVars>>
    /\ read_task = "running" /\ peer = "down"
    /\ read_task' = "done"
    /\ fut' = FailPending
    /\ UNCHANGED <<transport, peer, closed, pending_requests, wire, nextId>>
    /\ UNCHANGED <<taskVars, closeVars, adapterVars>>

\* the index of the first asynchronous handler among handlers, or 0
FirstAsync(handlers) ==
    LET I == {k \in 1..Len(handlers) : handlers[k] \in AsyncHandlers}
    IN  IF I = {} THEN 0 ELSE CHOOSE k \in I : \A j \in I : k <= j

\* _read_loop reads a notification frame for which an asynchronous handler is
\* registered: the handlers before it are called, then it is awaited and
\* sends a request; the reader is suspended in it unless the write fails
ReadNotificationAwait(method, timeout, wfail) ==
    /\ ~WorkerBusy
    /\ UNCHANGED <<dispVars, obsVars, callVars>>
    /\ read_task = "running" /\ peer = "up"
    /\ pc["h"] = "idle"
    /\ LET handlers == Get(notification_handlers, method, <<>>)
           k == FirstAsync(handlers)
           calls == InvokeFrom(method, handlers, 1)
       IN  /\ k # 0
           /\ send_request("h", <<"ping">>, NoParams, timeout, wfail)
           /\ IF SendOutcome(wfail) = Suspended
                THEN /\ read_task' = "handling"
                     /\ pc' = [pc EXCEPT !["h"] = "nh_wait"]
                     /\ invoked' = SubSeq(calls, 1, k)
                ELSE /\ read_task' = read_task
                     /\ pc' = pc
                     /\ invoked' = calls
    /\ UNCHANGED <<transport, peer, closed, cmd, out, notification_handlers>>
    /\ UNCHANGED <<closeVars, adapterVars>>

\* the future the handler awaits has completed: send_request raises into the
\* handler or returns to it, the handler ends, the handlers after it are
\* called and the reader goes back to readline
HandlerResume ==
    /\ ~WorkerBusy
    /\ UNCHANGED <<dispVars, obsVars, sent_params, callVars>>
    /\ read_task = "handling" /\ pc["h"] = "nh_wait"
    /\ fut[req["h"]].st # "pending"
    /\ pending_requests' = PendingAfterResume("h")
    /\ pc' = [pc EXCEPT !["h"] = "idle"]
    /\ out' = [out EXCEPT !["h"] = SrOutcome(fut[req["h"]])]
    /\ read_task' = "running"
    /\ LET last == invoked[Len(invoked)]
       IN  invoked' = invoked \o
               InvokeFrom(last.method, notification_handlers[last.method], last.index + 1)
    /\ UNCHANGED <<transport, peer, closed, fut, wire, nextId, req, tmo, cmd>>
    /\ UNCHANGED <<closeVars, adapterVars, notification_handlers>>

\* _read_loop reads a notification frame
ReadNotification(method) ==
    /\ ~WorkerBusy
    /\ UNCHANGED <<dispVars, obsVars, sent_params, callVars>>
    /\ read_task = "running" /\ peer = "up"
    /\ FirstAsync(Get(notification_handlers, method, <<>>)) = 0
    /\ LET m == Notification(method)
           h == HandleMessage(m)
       IN  /\ pending_requests' = h.pending
           /\ fut' = h.fut
           /\ invoked' = NotifyHandlers(m)
    /\ UNCHANGED <<transport, peer, closed, read_task, wire, nextId, notification_handlers>>
    /\ UNCHANGED <<taskVars, closeVars, adapterVars>>

\* _read_loop reads a line that json.loads or from_dict rejects: the
\* exception is logged and the loop goes on
ReadMalformed ==
    /\ ~WorkerBusy
    /\ read_task = "running" /\ peer = "up"
    /\ invoked' = <<>>
    /\ UNCHANGED <<progVars, sent_params, notification_handlers, callVars>>

\* _read_loop reads a response frame whose error field is no object
ReadErrorNotObject(i) ==
    /\ ~WorkerBusy
    /\ UNCHANGED <<dispVars, obsVars, sent_params, callVars>>
    /\ read_task = "running" /\ peer = "up"
    /\ wire[i] # NoMethod
    /\ LET m == ErrorNotObject(i)
           h == HandleMessage(m)
       IN  /\ pending_requests' = h.pending
           /\ fut' = h.fut
           /\ invoked' = NotifyHandlers(m)
    /\ UNCHANGED <<transport, peer, closed, read_task, wire, nextId, notification_handlers>>
    /\ UNCHANGED <<taskVars, closeVars, adapterVars>>

\* on_notification(method, handler)
on_notification(method, handler) ==
    /\ ~WorkerBusy
    /\ adapterConn
    /\ Registered < MaxHandlers
    /\ notification_handlers' =
          (method :> Append(Get(notification_handlers, method, <<>>), handler))
              @@ notification_handlers
    /\ UNCHANGED <<progVars, sent_params, invoked, callVars>>

----------------------------------------------------------------------------
\* Callers of MCPConnection.send_request / ZenMCPAdapter.execute_command

\* a caller that holds adapter.connection sends a request directly
UserSend(t, timeout, wfail) ==
    /\ UNCHANGED <<noteVars, callVars>>
    /\ UNCHANGED <<dispVars, obsVars>>
    /\ t \in Users /\ pc[t] = "idle"
    /\ adapterConn
    /\ send_request(t, <<"ping">>, NoParams, timeout, wfail)
    /\ LET o == SendOutcome(wfail)
       IN  IF o = Suspended
             THEN /\ pc' = [pc EXCEPT ![t] = "sr_wait"]
                  /\ out' = out
             ELSE /\ pc' = [pc EXCEPT ![t] = "done"]
                  /\ out' = [out EXCEPT ![t] = o]
    /\ UNCHANGED <<transport, peer, closed, read_task, cmd>>
    /\ UNCHANGED <<closeVars, adapterVars>>

UserResume(t) ==
    /\ UNCHANGED <<sent_params, noteVars, callVars>>
    /\ UNCHANGED <<dispVars, obsVars>>
    /\ pc[t] = "sr_wait"
    /\ fut[req[t]].st # "pending"
    /\ pending_requests' = PendingAfterResume(t)
    /\ pc' = [pc EXCEPT ![t] = "done"]
    /\ out' = [out EXCEPT ![t] = SrOutcome(fut[req[t]])]
    /\ UNCHANGED <<transport, peer, closed, read_task, fut, wire, nextId, req, tmo, cmd>>
    /\ UNCHANGED <<closeVars, adapterVars>>

\* faulty variant: the test looks at the connection object, which disconnect
\* leaves in place
IsConnectedByObject == adapterConn

\* execute_command's test of self._connected
IsConnected == connected

\* execute_command(command, params) up to its first suspension
execute_command(t, c, params, wfail) ==
    /\ UNCHANGED <<noteVars, callVars>>
    /\ UNCHANGED <<dispVars, obsVars>>
    /\ t \in Users /\ pc[t] = "idle"
    /\ IF ~IsConnected
         THEN /\ ~wfail
              /\ pc' = [pc EXCEPT ![t] = "done"]
              /\ out' = [out EXCEPT ![t] = NotConnectedOutcome]
              /\ cmd' = [cmd EXCEPT ![t] = c]
              /\ UNCHANGED <<pending_requests, fut, wire, sent_params, nextId, req, tmo,
                             history>>
         ELSE /\ send_request(t, ZenMethod(c), WithModel(c, params),
                              HasTimer(get_zen_command_timeout(c)), wfail)
              /\ cmd' = [cmd EXCEPT ![t] = c]
              /\ LET o == SendOutcome(wfail)
                 IN  IF o = Suspended
                       THEN /\ pc' = [pc EXCEPT ![t] = "ex_wait"]
                            /\ UNCHANGED <<out, history>>
                       ELSE /\ pc' = [pc EXCEPT ![t] = "done"]
                            /\ history' = HistoryAfter(ExecResult(c, o))
                            /\ out' = [out EXCEPT ![t] = ExecOutcome(c, o)]
    /\ UNCHANGED <<transport, peer, closed, read_task>>
    /\ UNCHANGED <<closeVars, client, clientConn, adapterConn, connected>>

\* a caller executes a command with a prompt and no model
UserExec(t, c, wfail) == execute_command(t, c, UserParams, wfail)

\* execute_command after send_request returned or raised
ExecResume(t) ==
    /\ UNCHANGED <<sent_params, noteVars, callVars>>
    /\ UNCHANGED <<dispVars, obsVars>>
    /\ pc[t] = "ex_wait"
    /\ fut[req[t]].st # "pending"
    /\ pending_requests' = PendingAfterResume(t)
    /\ LET o == SrOutcome(fut[req[t]])
       IN  /\ history' = HistoryAfter(ExecResult(cmd[t], o))
           /\ out' = [out EXCEPT ![t] = ExecOutcome(cmd[t], o)]
    /\ pc' = [pc EXCEPT ![t] = "done"]
    /\ UNCHANGED <<transport, peer, closed, read_task, fut, wire, nextId, req, tmo, cmd>>
    /\ UNCHANGED <<closeVars, client, clientConn, adapterConn, connected>>

\* the caller takes its outcome and is ready for another call
UserReturn(t) ==
    /\ UNCHANGED <<sent_params, noteVars, callVars>>
    /\ UNCHANGED <<dispVars, obsVars>>
    /\ t \in Users /\ pc[t] = "done"
    /\ pc' = [pc EXCEPT ![t] = "idle"]
    /\ out' = [out EXCEPT ![t] = NoOut]
    /\ req' = [req EXCEPT ![t] = 0]
    /\ tmo' = [tmo EXCEPT ![t] = FALSE]
    /\ cmd' = [cmd EXCEPT ![t] = ""]
    /\ UNCHANGED <<connVars, closeVars, adapterVars>>

----------------------------------------------------------------------------
\* ZenMCPAdapter.connect / MCPClient.connect

\* asyncio.open_connection raises: connect logs and returns False
ConnectRefused ==
    /\ UNCHANGED <<sent_params, noteVars, callVars>>
    /\ UNCHANGED <<dispVars, obsVars>>
    /\ client = "none" /\ pc["k"] = "idle"
    /\ client' = "set"
    /\ connected' = FALSE
    /\ pc' = [pc EXCEPT !["k"] = "done"]
    /\ out' = [out EXCEPT !["k"] = [kind |-> "connect", ret |-> FALSE]]
    /\ UNCHANGED <<connVars, req, tmo, cmd, closeVars, clientConn, adapterConn, history>>

\* the transport opens: the connection is created and started, and the
\* initialize request is sent with no timeout
ConnectStart(wfail) ==
    /\ UNCHANGED <<noteVars, callVars>>
    /\ UNCHANGED <<dispVars, obsVars>>
    /\ client = "none" /\ pc["k"] = "idle"
    /\ client' = "set"
    /\ clientConn' = TRUE
    /\ transport' = "open"
    /\ peer' = IF wfail THEN "down" ELSE "up"
    /\ read_task' = "running"
    /\ LET id == nextId
       IN  /\ nextId' = nextId + 1
           /\ req' = [req EXCEPT !["k"] = id]
           /\ wire' = [wire EXCEPT ![id] = <<"initialize">>]
           /\ sent_params' = [sent_params EXCEPT ![id] = InitializeParams]
           /\ IF wfail
                THEN /\ fut' = [fut EXCEPT ![id] = [st |-> "abandoned", val |-> 0]]
                     /\ pending_requests' = pending_requests
                     /\ connected' = FALSE
                     /\ pc' = [pc EXCEPT !["k"] = "done"]
                     /\ out' = [out EXCEPT !["k"] = [kind |-> "connect", ret |-> FALSE]]
                ELSE /\ fut' = [fut EXCEPT ![id] = PendingFut]
                     /\ pending_requests' = pending_requests \cup {id}
                     /\ pc' = [pc EXCEPT !["k"] = "hs_wait"]
                     /\ UNCHANGED <<connected, out>>
    /\ UNCHANGED <<closed, tmo, cmd, closeVars, adapterConn, history>>

\* faulty variant: an error response to initialize counts as a handshake
HandshakeOkAnyResponse(f) == f.st \in {"result", "error"}

\* client.connect() returns normally iff the initialize request got a result
HandshakeOk(f) == f.st = "result"

\* the initialize request returned or raised
ConnectResume ==
    /\ UNCHANGED <<sent_params, noteVars, callVars>>
    /\ UNCHANGED <<dispVars, obsVars>>
    /\ pc["k"] = "hs_wait"
    /\ fut[req["k"]].st # "pending"
    /\ pending_requests' = PendingAfterResume("k")
    /\ LET ok == HandshakeOk(fut[req["k"]])
       IN  /\ adapterConn' = (adapterConn \/ ok)
           /\ connected' = ok
           /\ out' = [out EXCEPT !["k"] = [kind |-> "connect", ret |-> ok]]
    /\ pc' = [pc EXCEPT !["k"] = "done"]
    /\ UNCHANGED <<transport, peer, closed, read_task, fut, wire, nextId, req, tmo, cmd>>
    /\ UNCHANGED <<closeVars, client, clientConn, history>>

----------------------------------------------------------------------------
\* MCPConnection.close, called directly or by ZenMCPAdapter.disconnect

AfterClose(via) ==
    /\ transport' = "closed"
    /\ closePc' = "idle"
    /\ IF via = "adapter"
         THEN clientConn' = FALSE /\ connected' = FALSE
         ELSE UNCHANGED <<clientConn, connected>>

\* a reader cancelled whether or not it has finished
CancelReachesReaderAlways == read_task # "none"

\* close cancels _read_task: the cancellation reaches a reader that has not
\* finished, and is a no-op on one that has
CancelReachesReader == read_task \in {"running", "handling"}

CloseBegin(via) ==
    /\ UNCHANGED <<sent_params, noteVars, callVars>>
    /\ ~WorkerBusy
    /\ UNCHANGED <<dispVars, obsVars>>
    /\ closePc = "idle"
    /\ transport # "none"
    /\ IF via = "adapter" THEN clientConn ELSE adapterConn
    /\ closed' = TRUE
    /\ closeVia' = via
    /\ IF CancelReachesReader
         THEN /\ read_task' = "cancelling"
              /\ closePc' = "joining"
              /\ UNCHANGED <<transport, clientConn, connected>>
         ELSE /\ read_task' = read_task
              /\ AfterClose(via)
    /\ UNCHANGED <<peer, pending_requests, fut, wire, nextId>>
    /\ UNCHANGED <<taskVars, client, adapterConn, history>>

\* the cancelled _read_loop runs its finally block; the cancellation passes
\* through a handler it is suspended in and cancels the future awaited there
ReaderCancelled ==
    /\ UNCHANGED <<sent_params, noteVars, callVars>>
    /\ ~WorkerBusy
    /\ UNCHANGED <<dispVars, obsVars>>
    /\ read_task = "cancelling"
    /\ read_task' = "done"
    /\ fut' = IF pc["h"] = "nh_wait" /\ fut[req["h"]].st = "pending"
                THEN [FailPending EXCEPT ![req["h"]] = [st |-> "cancelled", val |-> 0]]
                ELSE FailPending
    /\ pc' = [pc EXCEPT !["h"] = "idle"]
    /\ UNCHANGED <<transport, peer, closed, pending_requests, wire, nextId>>
    /\ UNCHANGED <<req, tmo, cmd, out, closeVars, adapterVars>>

CloseFinish ==
    /\ UNCHANGED <<sent_params, noteVars, callVars>>
    /\ ~WorkerBusy
    /\ UNCHANGED <<dispVars, obsVars>>
    /\ closePc = "joining"
    /\ read_task = "done"
    /\ AfterClose(closeVia)
    /\ UNCHANGED <<peer, closed, read_task, pending_requests, fut, wire, nextId>>
    /\ UNCHANGED <<taskVars, closeVia, client, adapterConn, history>>

\* ZenMCPAdapter.disconnect with no connection to close
DisconnectNoConn ==
    /\ UNCHANGED <<sent_params, noteVars, callVars>>
    /\ UNCHANGED <<dispVars, obsVars>>
    /\ closePc = "idle"
    /\ ~clientConn
    /\ connected' = FALSE
    /\ UNCHANGED <<connVars, taskVars, closeVars, client, clientConn, adapterConn, history>>

----------------------------------------------------------------------------
\* Config: the event mappings used when no mapping file exists

NoConditions == [k \in {} |-> 0]

event_mappings ==
    [t \in {"file_created", "error_detected", "code_changed", "test_failed"} |->
        CASE t = "file_created" ->
               [conditions |-> [extensions |-> {<<".", "p", "y">>, <<".", "j", "s">>,
                                                <<".", "t", "s">>}],
                commands |-> <<"analyze", "docgen">>]
          [] t = "error_detected" ->
               [conditions |-> [severity |-> {"error", "critical"}],
                commands |-> <<"debug", "tracer">>]
          [] t = "code_changed" ->
               [conditions |-> [min_lines |-> 10],
                commands |-> <<"codereview", "refactor">>]
          [] t = "test_failed" ->
               [conditions |-> NoConditions,
                commands |-> <<"testgen", "debug">>]]

get_event_commands(type) ==
    IF type \in DOMAIN event_mappings THEN event_mappings[type].commands ELSE <<>>

get_event_conditions(type) ==
    IF type \in DOMAIN event_mappings THEN event_mappings[type].conditions ELSE NoConditions

----------------------------------------------------------------------------
\* MISEvent.matches_conditions

\* faulty variant: startswith for endswith
StartsWith(str, suffix) ==
    /\ Len(suffix) <= Len(str)
    /\ SubSeq(str, 1, Len(suffix)) = suffix

\* str.endswith(suffix)
EndsWith(str, suffix) ==
    /\ Len(suffix) <= Len(str)
    /\ SubSeq(str, Len(str) - Len(suffix) + 1, Len(str)) = suffix

\* faulty variant: no branch for min_lines, which is then compared like any
\* other key
matches_conditions_NoMinLines(data, conditions) ==
    \A key \in DOMAIN conditions :
        CASE key = "extensions" ->
               LET file_path == IF "file_path" \in DOMAIN data THEN data["file_path"] ELSE <<>>
               IN  \E ext \in conditions[key] : EndsWith(file_path, ext)
          [] key = "severity" ->
               Get(data, "severity", None) \in conditions[key]
          [] OTHER ->
               key \in DOMAIN data => data[key] = conditions[key]

matches_conditions(data, conditions) ==
    \A key \in DOMAIN conditions :
        CASE key = "extensions" ->
               LET file_path == IF "file_path" \in DOMAIN data THEN data["file_path"] ELSE <<>>
               IN  \E ext \in conditions[key] : EndsWith(file_path, ext)
          [] key = "severity" ->
               Get(data, "severity", None) \in conditions[key]
          [] key = "min_lines" ->
               LET lines_changed ==
                     IF "lines_changed" \in DOMAIN data THEN data["lines_changed"] ELSE 0
               IN  lines_changed >= conditions[key]
          [] OTHER ->
               key \in DOMAIN data => data[key] = conditions[key]

\* matches_conditions raises TypeError when it compares a lines_changed that
\* is not a number with min_lines
ConditionsRaise(data, conditions) ==
    /\ "min_lines" \in DOMAIN conditions
    /\ Get(data, "lines_changed", 0) = NotANumber

----------------------------------------------------------------------------
\* EventHandler: the registered callbacks

\* a filter's answer: "true" | "false" | "raise"
ApplyFilter(f, e) ==
    CASE f = "accept" -> "true"
      [] f = "reject" -> "false"
      [] f = "errors_only" -> IF e.event_type = "error_detected" THEN "true" ELSE "false"
      [] OTHER -> "raise"

RECURSIVE FiltersFrom(_, _)
\* handle_event's loop over event_filters from index k: "pass" | "drop" | "raise"
FiltersFrom(e, k) ==
    IF k > Len(event_filters) THEN "pass"
    ELSE LET r == ApplyFilter(event_filters[k], e)
         IN  IF r = "raise" THEN "raise"
             ELSE IF r = "false" THEN "drop"
             ELSE FiltersFrom(e, k + 1)

RECURSIVE FilterCallsFromAll(_, _)
\* faulty variant: every filter is called, whatever the earlier ones answered
FilterCallsFromAll(e, k) ==
    IF k > Len(event_filters) THEN <<>>
    ELSE <<[filter |-> k, id |-> e.event_id, answer |-> ApplyFilter(event_filters[k], e)]>> \o
         FilterCallsFromAll(e, k + 1)

RECURSIVE FilterCallsFrom(_, _)
\* the calls handle_event's loop over event_filters makes from index k: the
\* loop ends at the first filter that returns false or raises
FilterCallsFrom(e, k) ==
    IF k > Len(event_filters) THEN <<>>
    ELSE LET r == ApplyFilter(event_filters[k], e)
         IN  <<[filter |-> k, id |-> e.event_id, answer |-> r]>> \o
             (IF r = "true" THEN FilterCallsFrom(e, k + 1) ELSE <<>>)

\* how the last handle_event ended: the loop over the filters has no
\* exception handler, so what a filter raises leaves handle_event
HandleEventOutcome(log) ==
    IF log # <<>> /\ log[Len(log)].answer = "raise" THEN "raised" ELSE "returned"

\* a pre-processor returns a replacement event or raises
ApplyPre(p, e) ==
    CASE p = "identity" -> [raised |-> FALSE, event |-> e]
      [] p = "rename" -> [raised |-> FALSE, event |-> [e EXCEPT !.event_id = e.event_id + 10]]
      [] OTHER -> [raised |-> TRUE, event |-> e]

RECURSIVE PreFrom(_, _)
\* _process_single_event's loop over pre_processors from index k
PreFrom(e, k) ==
    IF k > Len(pre_processors) THEN [raised |-> FALSE, event |-> e]
    ELSE LET r == ApplyPre(pre_processors[k], e)
         IN  IF r.raised THEN r ELSE PreFrom(r.event, k + 1)

\* a post-processor returns or raises
ApplyPost(p) == IF p = "record" THEN "returned" ELSE "raised"

RECURSIVE PostCallsFromStopAtRaise(_, _, _)
\* faulty variant: the first post-processor that raises ends the loop
PostCallsFromStopAtRaise(id, res, k) ==
    IF k > Len(post_processors) THEN <<>>
    ELSE <<[proc |-> k, processor |-> post_processors[k], id |-> id, res |-> res]>> \o
         (IF ApplyPost(post_processors[k]) = "raised" THEN <<>>
          ELSE PostCallsFromStopAtRaise(id, res, k + 1))

RECURSIVE PostCallsFrom(_, _, _)
\* _process_events' loop over post_processors from index k: each is called
\* with the result, an exception is logged and the loop goes on
PostCallsFrom(id, res, k) ==
    IF k > Len(post_processors) THEN <<>>
    ELSE <<[proc |-> k, processor |-> post_processors[k], id |-> id, res |-> res]>> \o
         PostCallsFrom(id, res, k + 1)

PostCalls(id, res) == PostCallsFrom(id, res, 1)

\* faulty variant: an event whose processing failed is not marked
MarkProcessedIfSuccess(s, id, res) == IF res.success THEN s \cup {id} ELSE s

\* self._processed_events.add(event.event_id)
MarkProcessed(s, id, res) == s \cup {id}

\* DedupLimit and DedupKeep: the trim of _processed_events
DedupLimit == 1000
DedupKeep == 500

\* set(list(s)[-keep:]) once s has more than limit members: the iteration
\* order of a set is not specified, so any keep members may be the last ones
TrimTo(s, limit, keep) ==
    IF Cardinality(s) > limit
      THEN {k \in SUBSET s : Cardinality(k) = keep}
      ELSE {s}

Trim(s) == TrimTo(s, DedupLimit, DedupKeep)

\* faulty variant: only the last command decides
AllSuccessLastOnly(crs) == crs = <<>> \/ crs[Len(crs)].success

\* all(r.success for r in command_results)
AllSuccess(crs) == \A k \in DOMAIN crs : crs[k].success

\* faulty variant: the newest result is put in front of the list
AddResultInFront(crs, r) == <<r>> \o crs

\* command_results.append(result)
AddResult(crs, r) == Append(crs, r)

\* faulty variant: the result made from an exception counts as a success
WorkerCommandResultAsSuccess(c, eo) ==
    IF eo.kind = "returned" THEN eo.res
    ELSE CommandResult(c, TRUE, 0, <<eo.msg>>)

\* _process_single_event's except branch around execute_command
WorkerCommandResult(c, eo) ==
    IF eo.kind = "returned" THEN eo.res
    ELSE CommandResult(c, FALSE, 0, <<eo.msg>>)

----------------------------------------------------------------------------
\* EventHandler: operations

\* a queue that holds one item at most
full_MaxOne(q) == Len(q) >= 1

\* Queue.full() of asyncio.Queue(): a queue without maxsize is never full, so
\* put() never suspends
full(q) == FALSE

handle_event(e) ==
    /\ UNCHANGED <<sent_params, noteVars, stats, mc_data, mc_conditions, mc_ret, fc_args,
                   fc_ret>>
    /\ ~WorkerBusy
    /\ Len(accepted) < MaxAccepted
    /\ ~full(event_queue)
    /\ filterLog' = IF e.event_id \in processed THEN <<>> ELSE FilterCallsFrom(e, 1)
    /\ IF e.event_id \in processed \/ FiltersFrom(e, 1) # "pass"
         THEN UNCHANGED <<event_queue, accepted>>
         ELSE /\ event_queue' = Append(event_queue, e)
              /\ accepted' = Append(accepted, e.event_id)
    /\ UNCHANGED <<connVars, taskVars, closeVars, adapterVars>>
    /\ UNCHANGED <<running, wtask, processed, event_filters, pre_processors,
                   post_processors, cur, wev, ci, cres, wres, stopPc>>
    /\ UNCHANGED <<started, results, postLog>>

\* add_filter(filter_func)
add_filter(f) ==
    /\ UNCHANGED <<sent_params, noteVars, callVars>>
    /\ ~WorkerBusy
    /\ Len(event_filters) < MaxFilters
    /\ event_filters' = Append(event_filters, f)
    /\ UNCHANGED <<connVars, taskVars, closeVars, adapterVars, obsVars>>
    /\ UNCHANGED <<event_queue, running, wtask, processed, pre_processors,
                   post_processors, cur, wev, ci, cres, wres, stopPc>>

\* add_pre_processor(processor)
add_pre_processor(p) ==
    /\ UNCHANGED <<sent_params, noteVars, callVars>>
    /\ ~WorkerBusy
    /\ Len(pre_processors) < MaxPre
    /\ pre_processors' = Append(pre_processors, p)
    /\ UNCHANGED <<connVars, taskVars, closeVars, adapterVars, obsVars>>
    /\ UNCHANGED <<event_queue, running, wtask, processed, event_filters,
                   post_processors, cur, wev, ci, cres, wres, stopPc>>

\* add_post_processor(processor)
add_post_processor(p) ==
    /\ UNCHANGED <<sent_params, noteVars, callVars>>
    /\ ~WorkerBusy
    /\ Len(post_processors) < MaxPost
    /\ post_processors' = Append(post_processors, p)
    /\ UNCHANGED <<connVars, taskVars, closeVars, adapterVars, obsVars>>
    /\ UNCHANGED <<event_queue, running, wtask, processed, event_filters,
                   pre_processors, cur, wev, ci, cres, wres, stopPc>>

\* start(): creates the worker task unless running
start ==
    /\ UNCHANGED <<sent_params, noteVars, callVars>>
    /\ ~WorkerBusy
    /\ ~running
    /\ wtask \in {"none", "done"}
    /\ running' = TRUE
    /\ wtask' = "alive"
    /\ pc' = [pc EXCEPT !["w"] = "w_get"]
    /\ UNCHANGED <<connVars, req, tmo, cmd, out, closeVars, adapterVars>>
    /\ UNCHANGED <<event_queue, processed, event_filters, pre_processors,
                   post_processors, cur, wev, ci, cres, wres, stopPc, obsVars>>

\* stop(): clears the flag, cancels the worker task and awaits it.  With eager
\* the cancellation reaches the awaited future at once (the task awaits it
\* directly), otherwise when the worker next runs.
stop(eager) ==
    /\ UNCHANGED <<sent_params, noteVars, callVars>>
    /\ ~WorkerBusy
    /\ stopPc = "idle"
    /\ running' = FALSE
    /\ IF wtask = "alive"
         THEN /\ wtask' = "cancelling"
              /\ stopPc' = "joining"
              /\ IF eager /\ pc["w"] = "w_wait" /\ fut[req["w"]].st = "pending"
                   THEN fut' = [fut EXCEPT ![req["w"]] = [st |-> "cancelled", val |-> 0]]
                   ELSE fut' = fut
         ELSE /\ ~eager
              /\ UNCHANGED <<wtask, stopPc, fut>>
    /\ UNCHANGED <<transport, peer, closed, read_task, pending_requests, wire, nextId>>
    /\ UNCHANGED <<taskVars, closeVars, adapterVars>>
    /\ UNCHANGED <<event_queue, processed, event_filters, pre_processors,
                   post_processors, cur, wev, ci, cres, wres, obsVars>>

\* the worker resumes with CancelledError: it passes every except Exception
\* and ends the loop; the event in flight is dropped, the pending entry stays
WorkerCancelled ==
    /\ UNCHANGED <<sent_params, noteVars, callVars>>
    /\ wtask = "cancelling"
    /\ pc["w"] \in {"w_get", "w_wait"}
    /\ fut' = IF pc["w"] = "w_wait" /\ fut[req["w"]].st = "pending"
                THEN [fut EXCEPT ![req["w"]] = [st |-> "cancelled", val |-> 0]]
                ELSE fut
    /\ pc' = [pc EXCEPT !["w"] = "idle"]
    /\ wtask' = "done"
    /\ cur' = NoEvent /\ wev' = NoEvent /\ ci' = 0 /\ cres' = <<>> /\ wres' = NoResult
    /\ UNCHANGED <<transport, peer, closed, read_task, pending_requests, wire, nextId>>
    /\ UNCHANGED <<req, tmo, cmd, out, closeVars, adapterVars>>
    /\ UNCHANGED <<event_queue, running, processed, event_filters, pre_processors,
                   post_processors, stopPc, obsVars>>

\* wait_for before Python 3.12 returns the inner result when it is already
\* there as the cancellation arrives: the cancellation is lost
WorkerCancelSwallowed ==
    /\ UNCHANGED <<sent_params, noteVars, callVars>>
    /\ wtask = "cancelling"
    /\ \/ pc["w"] = "w_wait" /\ fut[req["w"]].st \in {"result", "error", "closed"}
       \/ pc["w"] = "w_get" /\ event_queue # <<>>
    /\ wtask' = "alive"
    /\ UNCHANGED <<connVars, taskVars, closeVars, adapterVars, obsVars>>
    /\ UNCHANGED <<event_queue, running, processed, event_filters, pre_processors,
                   post_processors, cur, wev, ci, cres, wres, stopPc>>

\* faulty variant: stop() does not await the task it cancelled
JoinedAtOnce == TRUE

\* await self.processing_task: the worker task has ended
Joined == wtask = "done"

\* stop() returns once the worker task has ended
StopReturns ==
    /\ UNCHANGED <<sent_params, noteVars, callVars>>
    /\ ~WorkerBusy
    /\ stopPc = "joining"
    /\ Joined
    /\ stopPc' = "idle"
    /\ UNCHANGED <<connVars, taskVars, closeVars, adapterVars, obsVars>>
    /\ UNCHANGED <<event_queue, running, wtask, processed, event_filters, pre_processors,
                   post_processors, cur, wev, ci, cres, wres>>

\* event_queue.get(): the oldest event
Take(q) == [event |-> Head(q), rest |-> Tail(q)]

\* _process_events: an event arrives; _process_single_event up to the loop
\* over the commands
W_Dequeue ==
    /\ UNCHANGED <<sent_params, noteVars, callVars>>
    /\ pc["w"] = "w_get" /\ wtask = "alive"
    /\ event_queue # <<>>
    /\ LET e == Take(event_queue).event
           pre == PreFrom(e, 1)
       IN  /\ event_queue' = Take(event_queue).rest
           /\ started' = Append(started, e.event_id)
           /\ cur' = e
           /\ wev' = pre.event
           /\ cres' = <<>>
           /\ IF \/ pre.raised
                 \/ ConditionsRaise(pre.event.data,
                                    get_event_conditions(pre.event.event_type))
                THEN /\ wres' = EventProcessingResult(pre.event, <<>>, <<>>, FALSE, "exception")
                     /\ ci' = 0
                     /\ pc' = [pc EXCEPT !["w"] = "w_finish"]
                ELSE IF ~matches_conditions(pre.event.data,
                                            get_event_conditions(pre.event.event_type))
                  THEN /\ wres' = EventProcessingResult(pre.event, <<>>, <<>>, TRUE, "")
                       /\ ci' = 0
                       /\ pc' = [pc EXCEPT !["w"] = "w_finish"]
                  ELSE /\ wres' = NoResult
                       /\ ci' = 1
                       /\ pc' = [pc EXCEPT !["w"] = "w_cmd"]
    /\ UNCHANGED <<connVars, req, tmo, cmd, out, closeVars, adapterVars>>
    /\ UNCHANGED <<running, wtask, processed, event_filters, pre_processors,
                   post_processors, stopPc, accepted, results, postLog>>

\* the loop over the commands: the next command up to its suspension, or the
\* aggregation of the result after the last one
W_Command(wfail) ==
    /\ UNCHANGED <<noteVars, callVars>>
    /\ pc["w"] = "w_cmd"
    /\ LET cmds == get_event_commands(wev.event_type)
       IN  IF ci > Len(cmds)
             THEN /\ ~wfail
                  /\ wres' = EventProcessingResult(wev, cmds, cres, AllSuccess(cres), "")
                  /\ pc' = [pc EXCEPT !["w"] = "w_finish"]
                  /\ UNCHANGED <<pending_requests, fut, wire, sent_params, nextId, req,
                                 tmo, cmd, history, cres, ci>>
             ELSE LET c == cmds[ci]
                  IN  IF ~IsConnected
                        THEN /\ ~wfail
                             /\ cres' = AddResult(cres, WorkerCommandResult(c, NotConnectedOutcome))
                             /\ ci' = ci + 1
                             /\ UNCHANGED <<pending_requests, fut, wire, sent_params, nextId,
                                            req, tmo, cmd, history, pc, wres>>
                        ELSE /\ send_request("w", ZenMethod(c),
                                             WithModel(c, _prepare_command_params(c, wev)),
                                             HasTimer(get_zen_command_timeout(c)), wfail)
                             /\ cmd' = [cmd EXCEPT !["w"] = c]
                             /\ wres' = wres
                             /\ LET o == SendOutcome(wfail)
                                IN  IF o = Suspended
                                      THEN /\ pc' = [pc EXCEPT !["w"] = "w_wait"]
                                           /\ UNCHANGED <<history, cres, ci>>
                                      ELSE /\ history' = HistoryAfter(ExecResult(c, o))
                                           /\ cres' = AddResult(cres,
                                                  WorkerCommandResult(c, ExecOutcome(c, o)))
                                           /\ ci' = ci + 1
                                           /\ pc' = pc
    /\ UNCHANGED <<transport, peer, closed, read_task, out, closeVars>>
    /\ UNCHANGED <<client, clientConn, adapterConn, connected>>
    /\ UNCHANGED <<event_queue, running, wtask, processed, event_filters, pre_processors,
                   post_processors, cur, wev, stopPc, obsVars>>

\* execute_command of the worker after send_request returned or raised
W_Resume ==
    /\ UNCHANGED <<sent_params, noteVars, callVars>>
    /\ pc["w"] = "w_wait" /\ wtask = "alive"
    /\ fut[req["w"]].st # "pending"
    /\ pending_requests' = PendingAfterResume("w")
    /\ LET o == SrOutcome(fut[req["w"]])
           c == cmd["w"]
       IN  /\ history' = HistoryAfter(ExecResult(c, o))
           /\ cres' = AddResult(cres, WorkerCommandResult(c, ExecOutcome(c, o)))
    /\ ci' = ci + 1
    /\ pc' = [pc EXCEPT !["w"] = "w_cmd"]
    /\ UNCHANGED <<transport, peer, closed, read_task, fut, wire, nextId>>
    /\ UNCHANGED <<req, tmo, cmd, out, closeVars, client, clientConn, adapterConn, connected>>
    /\ UNCHANGED <<event_queue, running, wtask, processed, event_filters, pre_processors,
                   post_processors, cur, wev, wres, stopPc, obsVars>>

\* faulty variant: the loop ends after an event that failed
LoopAgainAfterSuccess == running /\ wres.success

\* _process_events: while self._running
LoopAgain == running

\* _process_events after _process_single_event returned: mark processed, call
\* the post-processors, trim, and test _running for the next round
\* faulty variant: the id of the event in the result is marked
DedupIdOfResult == wres.event.event_id

\* event.event_id in _process_events: event is the event as dequeued, which
\* the assignments inside _process_single_event do not reach
DedupId == cur.event_id

W_Finish ==
    /\ UNCHANGED <<sent_params, noteVars, callVars>>
    /\ pc["w"] = "w_finish"
    /\ results' = Append(results, [id |-> cur.event_id, res |-> wres])
    /\ processed' \in Trim(MarkProcessed(processed, DedupId, wres))
    /\ postLog' = postLog \o PostCalls(cur.event_id, wres)
    /\ cur' = NoEvent /\ wev' = NoEvent /\ ci' = 0 /\ cres' = <<>> /\ wres' = NoResult
    /\ IF LoopAgain
         THEN pc' = [pc EXCEPT !["w"] = "w_get"] /\ wtask' = wtask
         ELSE pc' = [pc EXCEPT !["w"] = "idle"] /\ wtask' = "done"
    /\ UNCHANGED <<connVars, req, tmo, cmd, out, closeVars, adapterVars>>
    /\ UNCHANGED <<event_queue, running, event_filters, pre_processors, post_processors,
                   stopPc, accepted, started>>

\* EventHandler.__init__
InitDispatcher ==
    /\ event_queue = <<>> /\ running = FALSE /\ wtask = "none"
    /\ processed = {}
    /\ event_filters = <<>> /\ pre_processors = <<>> /\ post_processors = <<>>
    /\ cur = NoEvent /\ wev = NoEvent /\ ci = 0 /\ cres = <<>> /\ wres = NoResult
    /\ stopPc = "idle"
    /\ accepted = <<>> /\ started = <<>> /\ results = <<>> /\ postLog = <<>>

\* the arguments of a factory call: the factory, its two string arguments
\* (event_type or error_message or test_name or alert_type; severity or
\* status or description), file_path and lines_changed
FactoryCall(f, s1, s2, path, n) ==
    [factory |-> f, s1 |-> s1, s2 |-> s2, file_path |-> path, lines_changed |-> n]

NoFactoryCall == FactoryCall("", "", "", <<>>, 0)

\* no pure call has been made
InitCalls ==
    /\ stats = NoStats
    /\ mc_data = NoData /\ mc_conditions = NoConditions /\ mc_ret = "none"
    /\ fc_args = NoFactoryCall /\ fc_ret = NoEvent
    /\ filterLog = <<>>

----------------------------------------------------------------------------
\* nothing is connected yet
InitConnection ==
    /\ transport = "none" /\ peer = "down" /\ closed = FALSE
    /\ read_task = "none"
    /\ pending_requests = {}
    /\ fut = [i \in Ids |-> NoFut]
    /\ wire = [i \in Ids |-> NoMethod]
    /\ sent_params = [i \in Ids |-> NoParams]
    /\ notification_handlers = NoHandlers
    /\ invoked = <<>>
    /\ nextId = 1
    /\ pc = [t \in Tasks |-> "idle"]
    /\ req = [t \in Tasks |-> 0]
    /\ tmo = [t \in Tasks |-> FALSE]
    /\ cmd = [t \in Tasks |-> ""]
    /\ out = [t \in Tasks |-> NoOut]
    /\ closePc = "idle" /\ closeVia = "direct"
    /\ client = "none" /\ clientConn = FALSE /\ adapterConn = FALSE
    /\ connected = FALSE

Init ==
    /\ InitConnection
    /\ history = <<>>
    /\ InitDispatcher
    /\ InitCalls

ConnectNext ==
    \/ ConnectRefused
    \/ \E wfail \in BOOLEAN : ConnectStart(wfail)
    \/ ConnectResume

WireNext ==
    \/ \E t \in Tasks : TimeoutFire(t)
    \/ \E i \in Ids, ok \in BOOLEAN : ReadResponse(i, ok)
    \/ PeerClose
    \/ ReadEOF
    \/ ReaderCancelled
    \/ CloseFinish

\* the connection under callers of send_request
Next ==
    \/ ConnectNext
    \/ WireNext
    \/ \E t \in Users, timeout \in BOOLEAN, wfail \in BOOLEAN : UserSend(t, timeout, wfail)
    \/ \E t \in Users : UserResume(t)
    \/ \E t \in Users : UserReturn(t)
    \/ CloseBegin("direct")

Spec == Init /\ [][Next]_vars

\* the same, where a caller whose future has completed is resumed: the event
\* loop runs the wake-up that the completion of a future schedules
SpecLive ==
    /\ Init /\ [][Next]_vars
    /\ \A t \in Users : WF_vars(UserResume(t))

\* the same, where also connect is resumed once the future of the initialize
\* request has completed
SpecConnect ==
    /\ Init /\ [][Next]_vars
    /\ WF_vars(ConnectResume)
    /\ \A t \in Users : WF_vars(UserResume(t))

\* the same, where moreover the owner of the connection calls close() at
\* some time and close() runs to its end
SpecEOF ==
    /\ Init /\ [][Next]_vars
    /\ \A t \in Users : WF_vars(UserResume(t))
    /\ WF_vars(CloseBegin("direct"))
    /\ WF_vars(ReaderCancelled)
    /\ WF_vars(CloseFinish)

\* the adapter under callers of execute_command
NextAdapter ==
    \/ ConnectNext
    \/ WireNext
    \/ \E t \in Users, c \in UserCommands, wfail \in BOOLEAN : UserExec(t, c, wfail)
    \/ \E t \in Users : ExecResume(t)
    \/ \E t \in Users : UserReturn(t)
    \/ \E via \in {"direct", "adapter"} : CloseBegin(via)
    \/ DisconnectNoConn

SpecAdapter == Init /\ [][NextAdapter]_vars


WorkerNext ==
    \/ W_Dequeue
    \/ \E wfail \in BOOLEAN : W_Command(wfail)
    \/ W_Resume
    \/ W_Finish
    \/ WorkerCancelled
    \/ WorkerCancelSwallowed

DispatcherCalls ==
    \/ \E e \in EventPool : handle_event(e)
    \/ start
    \/ \E eager \in BOOLEAN : stop(eager)
    \/ StopReturns

\* the state after ZenMCPAdapter.connect has returned true
Connected ==
    /\ transport = "open" /\ peer = "up" /\ closed = FALSE
    /\ read_task = "running"
    /\ pending_requests = {}
    /\ fut = [i \in Ids |-> IF i = 1 THEN [st |-> "result", val |-> 1] ELSE NoFut]
    /\ wire = [i \in Ids |-> IF i = 1 THEN <<"initialize">> ELSE NoMethod]
    /\ sent_params = [i \in Ids |-> IF i = 1 THEN InitializeParams ELSE NoParams]
    /\ notification_handlers = NoHandlers
    /\ invoked = <<>>
    /\ InitCalls
    /\ nextId = 2
    /\ pc = [t \in Tasks |-> IF t = "k" THEN "done" ELSE "idle"]
    /\ req = [t \in Tasks |-> IF t = "k" THEN 1 ELSE 0]
    /\ tmo = [t \in Tasks |-> FALSE]
    /\ cmd = [t \in Tasks |-> ""]
    /\ out = [t \in Tasks |-> IF t = "k" THEN [kind |-> "connect", ret |-> TRUE] ELSE NoOut]
    /\ closePc = "idle" /\ closeVia = "direct"
    /\ client = "set" /\ clientConn = TRUE /\ adapterConn = TRUE
    /\ connected = TRUE
    /\ history = <<>>

\* ---- calls of MISEvent.matches_conditions on any event data and conditions

\* an optional field: absent, or one of the values of S
Opt(S) == {{}} \cup {{x} : x \in S}
Field(key, o) == IF o = {} THEN NoParams ELSE (key :> (CHOOSE x \in o : TRUE))

Paths ==
    { PyPath, <<"a", ".", "j", "s">>, <<"a", ".", "p", "y", "c">>, <<".", "p", "y">>,
      <<"p", "y">> }

DataPool ==
    { Field("file_path", a) @@ Field("severity", b) @@ Field("lines_changed", c)
        @@ Field("branch", d) :
        a \in Opt(Paths), b \in Opt({"critical", "info"}),
        c \in Opt(0..MaxLines), d \in Opt({"main", "dev"}) }

DotPy == <<".", "p", "y">>

ConditionPool ==
    { Field("extensions", a) @@ Field("severity", b) @@ Field("min_lines", c)
        @@ Field("branch", d) :
        a \in Opt({{DotPy}, {DotPy, <<".", "j", "s">>}, {<<>>}, {}}),
        b \in Opt({{"error", "critical"}, {"info"}, {None}}),
        c \in Opt((-1)..(MaxLines + 1)), d \in Opt({"main"}) }

InitMatch ==
    /\ InitConnection
    /\ history = <<>>
    /\ InitDispatcher
    /\ stats = NoStats
    /\ mc_data \in DataPool
    /\ mc_conditions \in ConditionPool
    /\ mc_ret = "none"
    /\ fc_args = NoFactoryCall /\ fc_ret = NoEvent
    /\ filterLog = <<>>

\* event.matches_conditions(conditions) is called and returns
MatchesCall ==
    /\ mc_ret = "none"
    /\ mc_ret' = IF matches_conditions(mc_data, mc_conditions) THEN "True" ELSE "False"
    /\ UNCHANGED <<progVars, sent_params, noteVars, stats, mc_data, mc_conditions, fc_args,
                   fc_ret, filterLog>>

NextMatch == MatchesCall

SpecMatch == InitMatch /\ [][NextMatch]_vars

\* ---- ZenMCPAdapter.get_command_stats on any history

RECURSIVE GCD(_, _)
GCD(a, b) == IF b = 0 THEN a ELSE GCD(b, a % b)

\* the float a / b, kept as the fraction in lowest terms
Divide(a, b) == LET g == GCD(a, b) IN [num |-> a \div g, den |-> b \div g]

\* the entry of a command when it is first seen
ZeroStats ==
    [total_executions |-> 0, successful |-> 0, failed |-> 0, total_time |-> 0,
     avg_time |-> Divide(0, 1)]

\* faulty variant: the average is taken before the time of this result is added
UpdateStatsStaleAverage(cmd_stats, result) ==
    [total_executions |-> cmd_stats.total_executions + 1,
     successful |-> cmd_stats.successful + (IF result.success THEN 1 ELSE 0),
     failed |-> cmd_stats.failed + (IF result.success THEN 0 ELSE 1),
     total_time |-> cmd_stats.total_time + result.execution_time,
     avg_time |-> Divide(cmd_stats.total_time, cmd_stats.total_executions + 1)]

\* the body of get_command_stats' loop for one result
UpdateStats(cmd_stats, result) ==
    [total_executions |-> cmd_stats.total_executions + 1,
     successful |-> cmd_stats.successful + (IF result.success THEN 1 ELSE 0),
     failed |-> cmd_stats.failed + (IF result.success THEN 0 ELSE 1),
     total_time |-> cmd_stats.total_time + result.execution_time,
     avg_time |-> Divide(cmd_stats.total_time + result.execution_time,
                         cmd_stats.total_executions + 1)]

RECURSIVE StatsFrom(_, _, _)
\* get_command_stats' loop over the history from index k
StatsFrom(h, k, acc) ==
    IF k > Len(h) THEN acc
    ELSE LET result == h[k]
             cmd_stats == Get(acc, result.command, ZeroStats)
         IN  StatsFrom(h, k + 1, (result.command :> UpdateStats(cmd_stats, result)) @@ acc)

get_command_stats == StatsFrom(history, 1, NoStats)

\* a ZenCommandResult with its execution_time
TimedResult(c, ok, t) ==
    [command |-> c, success |-> ok, result |-> 0,
     error |-> IF ok THEN <<>> ELSE <<"MCP error in", c, "remote">>,
     execution_time |-> t]

HistoryPool ==
    LET R == {TimedResult(c, ok, t) : c \in UserCommands, ok \in BOOLEAN, t \in 1..MaxTime}
    IN  UNION {[1..n -> R] : n \in 0..MaxHistory}

InitStats ==
    /\ InitConnection
    /\ history \in HistoryPool
    /\ InitDispatcher
    /\ InitCalls

\* get_command_stats() is called and returns
StatsCall ==
    /\ stats = NoStats
    /\ stats' = get_command_stats
    /\ UNCHANGED <<progVars, sent_params, noteVars, mc_data, mc_conditions, mc_ret, fc_args,
                   fc_ret, filterLog>>

NextStats == StatsCall

SpecStats == InitStats /\ [][NextStats]_vars

\* ---- the event factories of event_types.py on any arguments

\* the default priority of EventMetadata
DefaultPriority == "MEDIUM"

\* the id MISEvent.__post_init__ generates
FreshId == 1

\* the greatest index of s that holds ch, or 0
LastIndex(s, ch) ==
    LET I == {i \in 1..Len(s) : s[i] = ch}
    IN  IF I = {} THEN 0 ELSE CHOOSE i \in I : \A j \in I : j <= i

\* s.split(ch)[-1]
AfterLast(s, ch) == SubSeq(s, LastIndex(s, ch) + 1, Len(s))

\* '.' + file_path.split('.')[-1] if '.' in file_path else ''
Extension(path) == IF LastIndex(path, ".") = 0 THEN <<>> ELSE <<".">> \o AfterLast(path, ".")

create_file_event(event_type, file_path) ==
    MISEvent(FreshId, event_type,
             [file_path |-> file_path, file_name |-> AfterLast(file_path, "/"),
              extension |-> Extension(file_path)],
             Meta("file_system", DefaultPriority, "FILE_SYSTEM"))

\* priority_map.get(severity, EventPriority.MEDIUM)
priority_map(severity) ==
    CASE severity = "warning" -> "LOW"
      [] severity = "error" -> "HIGH"
      [] severity = "critical" -> "CRITICAL"
      [] OTHER -> "MEDIUM"

create_error_event(error_message, severity) ==
    MISEvent(FreshId, "error_detected",
             [error_message |-> error_message, severity |-> severity],
             Meta("error_handler", priority_map(severity), "ERROR"))

create_code_change_event(file_path, lines_changed) ==
    MISEvent(FreshId, "code_changed",
             [file_path |-> file_path, lines_changed |-> lines_changed,
              change_type |-> "modification"],
             Meta("code_monitor", DefaultPriority, "CODE_CHANGE"))

create_test_event(test_name, status) ==
    MISEvent(FreshId, IF status = "passed" THEN "test_passed" ELSE "test_failed",
             [test_name |-> test_name, status |-> status],
             Meta("test_runner", IF status = "failed" THEN "HIGH" ELSE "LOW", "TEST"))

create_security_event(alert_type, description) ==
    MISEvent(FreshId, "security_alert",
             [alert_type |-> alert_type, description |-> description],
             Meta("security_monitor", "CRITICAL", "SECURITY"))

\* the factory named by the call, applied to its arguments
Factory(a) ==
    CASE a.factory = "create_file_event" -> create_file_event(a.s1, a.file_path)
      [] a.factory = "create_error_event" -> create_error_event(a.s1, a.s2)
      [] a.factory = "create_code_change_event" ->
             create_code_change_event(a.file_path, a.lines_changed)
      [] a.factory = "create_test_event" -> create_test_event(a.s1, a.s2)
      [] OTHER -> create_security_event(a.s1, a.s2)

FactoryPaths == Paths \cup {<<"d", "/", "a", ".", "p", "y">>}

FactoryCallPool ==
    {FactoryCall("create_file_event", t, "", p, 0) :
        t \in {"file_created", "file_modified", "file_deleted"}, p \in FactoryPaths}
    \cup {FactoryCall("create_error_event", m, v, <<>>, 0) :
        m \in {"boom", ""}, v \in {"warning", "error", "critical", "info", "fatal"}}
    \cup {FactoryCall("create_code_change_event", "", "", p, n) :
        p \in FactoryPaths, n \in 0..MaxLines}
    \cup {FactoryCall("create_test_event", t, v, <<>>, 0) :
        t \in {"test_a", "test_b"}, v \in {"passed", "failed", "skipped", "error"}}
    \cup {FactoryCall("create_security_event", t, d, <<>>, 0) :
        t \in {"secret_leak", "cve"}, d \in {"found", ""}}

InitFactory ==
    /\ InitConnection
    /\ history = <<>>
    /\ InitDispatcher
    /\ stats = NoStats
    /\ mc_data = NoData /\ mc_conditions = NoConditions /\ mc_ret = "none"
    /\ fc_args \in FactoryCallPool /\ fc_ret = NoEvent
    /\ filterLog = <<>>

\* the factory is called and returns the event
FactoryReturn ==
    /\ fc_ret = NoEvent
    /\ fc_ret' = Factory(fc_args)
    /\ UNCHANGED <<progVars, sent_params, noteVars, stats, mc_data, mc_conditions, mc_ret,
                   fc_args, filterLog>>

NextFactory == FactoryReturn

SpecFactory == InitFactory /\ [][NextFactory]_vars

InitReader ==
    /\ Connected
    /\ InitDispatcher

\* the reader of a connected adapter's connection under every kind of inbound
\* frame, with one direct caller of send_request
NextReader ==
    \/ \E timeout \in BOOLEAN, wfail \in BOOLEAN : UserSend("u1", timeout, wfail)
    \/ UserResume("u1")
    \/ UserReturn("u1")
    \/ \E t \in Tasks : TimeoutFire(t)
    \/ \E i \in Ids, ok \in BOOLEAN : ReadResponse(i, ok)
    \/ PeerClose
    \/ ReadEOF
    \/ \E method \in Methods, handler \in Handlers : on_notification(method, handler)
    \/ \E method \in Methods : ReadNotification(method)
    \/ ReadMalformed
    \/ \E i \in Ids : ReadErrorNotObject(i)

SpecReader == InitReader /\ [][NextReader]_vars

\* a handler that awaits send_request is registered, once per method at most
RegisterAsync(method) ==
    /\ FirstAsync(Get(notification_handlers, method, <<>>)) = 0
    /\ on_notification(method, "request")

\* the reader of a connected adapter's connection with handlers that return
\* and handlers that await a request on the connection, one direct caller
\* of send_request, and close()
NextHandler ==
    \/ \E timeout \in BOOLEAN, wfail \in BOOLEAN : UserSend("u1", timeout, wfail)
    \/ UserResume("u1")
    \/ \E t \in {"u1", "h"} : TimeoutFire(t)
    \/ \E i \in Ids, ok \in BOOLEAN : ReadResponse(i, ok)
    \/ PeerClose
    \/ ReadEOF
    \/ \E method \in Methods : on_notification(method, "ok")
    \/ \E method \in Methods : RegisterAsync(method)
    \/ \E method \in Methods : ReadNotification(method)
    \/ \E method \in Methods, timeout \in BOOLEAN, wfail \in BOOLEAN :
          ReadNotificationAwait(method, timeout, wfail)
    \/ HandlerResume
    \/ CloseBegin("direct")
    \/ ReaderCancelled
    \/ CloseFinish

SpecHandler == InitReader /\ [][NextHandler]_vars

\* a connected adapter's connection under one caller of send_request, closed
\* through the adapter and directly, any number of times
NextClose ==
    \/ \E timeout \in BOOLEAN, wfail \in BOOLEAN : UserSend("u1", timeout, wfail)
    \/ UserResume("u1")
    \/ UserReturn("u1")
    \/ WireNext
    \/ \E via \in {"direct", "adapter"} : CloseBegin(via)

SpecClose == InitReader /\ [][NextClose]_vars

\* ---- one call of execute_command on a connected adapter, for any command
\* name and any params

CommandPool ==
    {"thinkdeep", "secaudit", "consensus", "chat", "listmodels", "version",
     "debug", "analyze", "nosuch"}

ParamPool ==
    { Field("prompt", a) @@ Field("model", b) :
        a \in Opt({"hi"}), b \in Opt({"my-model", "o3-mini", None}) }

NextModel ==
    \/ \E c \in CommandPool, params \in ParamPool, wfail \in BOOLEAN :
          execute_command("u1", c, params, wfail)
    \/ ExecResume("u1")
    \/ \E t \in Tasks : TimeoutFire(t)
    \/ \E i \in Ids, ok \in BOOLEAN : ReadResponse(i, ok)
    \/ PeerClose
    \/ ReadEOF

SpecModel == InitReader /\ [][NextModel]_vars

\* a dispatcher is created over an adapter that is connected, or over one
\* that never connected
InitDisp ==
    /\ Init \/ Connected
    /\ InitDispatcher

\* the dispatcher over the adapter and the connection
NextDisp ==
    \/ WorkerNext
    \/ DispatcherCalls
    \/ WireNext
    \/ CloseBegin("adapter")

SpecDisp == InitDisp /\ [][NextDisp]_vars

\* a dispatcher that is started and never stopped, over an adapter that is
\* connected or never was, under events of which some fail to process; it is
\* given a pre-processor that raises, a post-processor that raises, both or
\* none before it is started
RegisterFailingPre ==
    wtask = "none" /\ accepted = <<>> /\ pre_processors = <<>> /\ add_pre_processor("raise")

RegisterFailingPost ==
    wtask = "none" /\ accepted = <<>> /\ post_processors = <<>> /\ add_post_processor("raise")

\* an event whose commands are sent and one whose conditions raise
FailingPool == {e \in EventPool : e.event_type = "error_detected"} \cup {BadLinesEvent}

WorkerSteps ==
    \/ W_Dequeue
    \/ \E wfail \in BOOLEAN : W_Command(wfail)
    \/ W_Resume
    \/ W_Finish

NextWorker ==
    \/ WorkerSteps
    \/ \E e \in FailingPool : handle_event(e)
    \/ start
    \/ RegisterFailingPre
    \/ RegisterFailingPost
    \/ TimeoutFire("w")
    \/ \E i \in Ids, ok \in BOOLEAN : ReadResponse(i, ok)
    \/ PeerClose
    \/ ReadEOF

\* the same dispatcher under events of every outcome: conditions not met,
\* commands sent, conditions that raise
NextOutcomes ==
    \/ WorkerSteps
    \/ \E e \in EventPool \cup {BadLinesEvent} : handle_event(e)
    \/ start
    \/ RegisterFailingPre
    \/ RegisterFailingPost
    \/ TimeoutFire("w")
    \/ \E i \in Ids, ok \in BOOLEAN : ReadResponse(i, ok)
    \/ PeerClose
    \/ ReadEOF

SpecOutcomes == InitDisp /\ [][NextOutcomes]_vars

\* a dispatcher that is started and never stopped, under post-processors
\* that return or raise, registered at any time; the peer answers every
\* command with a result or an error
NextPost ==
    \/ WorkerSteps
    \/ \E e \in EventPool : handle_event(e)
    \/ start
    \/ \E p \in PostProcessors : add_post_processor(p)
    \/ \E i \in Ids, ok \in BOOLEAN : ReadResponse(i, ok)

SpecPost == InitDisp /\ [][NextPost]_vars

\* a dispatcher that is started and never stopped, with pre-processors that
\* return the event, return a replacement with another event_id or raise,
\* registered before the first event arrives
RegisterPre(p) == accepted = <<>> /\ add_pre_processor(p)

NextPre ==
    \/ WorkerSteps
    \/ \E e \in EventPool \cup {BadLinesEvent} : handle_event(e)
    \/ start
    \/ \E p \in PreProcessors \cup {"rename"} : RegisterPre(p)
    \/ \E i \in Ids, ok \in BOOLEAN : ReadResponse(i, ok)

SpecPre == InitDisp /\ [][NextPre]_vars

\* a dispatcher that is started and never stopped, under filters registered
\* at any time; the peer answers every command with a result or an error
NextFilter ==
    \/ WorkerSteps
    \/ \E e \in EventPool : handle_event(e)
    \/ start
    \/ \E f \in FilterPool : add_filter(f)
    \/ \E i \in Ids, ok \in BOOLEAN : ReadResponse(i, ok)

SpecFilter == InitDisp /\ [][NextFilter]_vars

\* ---- the dedup set over a long run of processed events, at a reduced scale:
\* the trim keeps TrimKeep ids once there are more than TrimLimit (in the
\* code 500 and 1000); the k-th event processed has event_id k

MarkAndTrim ==
    /\ Len(started) < MaxMarked
    /\ LET id == Len(started) + 1
       IN  /\ started' = Append(started, id)
           /\ processed' \in TrimTo(MarkProcessed(processed, id, NoResult),
                                    TrimLimit, TrimKeep)
    /\ UNCHANGED <<connVars, taskVars, closeVars, adapterVars>>
    /\ UNCHANGED <<sent_params, noteVars, callVars>>
    /\ UNCHANGED <<event_queue, running, wtask, event_filters, pre_processors,
                   post_processors, cur, wev, ci, cres, wres, stopPc>>
    /\ UNCHANGED <<accepted, results, postLog>>

NextTrim == MarkAndTrim

SpecTrim == Init /\ [][NextTrim]_vars

\* the event loop runs a task that is ready: the worker takes an event that
\* is queued, goes on after a completed command and after its own steps,
\* and the timer of a command it waits for expires unless a response comes
SpecWorker ==
    /\ InitDisp /\ [][NextWorker]_vars
    /\ WF_vars(W_Dequeue)
    /\ WF_vars(\E wfail \in BOOLEAN : W_Command(wfail))
    /\ WF_vars(W_Resume)
    /\ WF_vars(W_Finish)
    /\ WF_vars(TimeoutFire("w"))

----------------------------------------------------------------------------
\* Claims about MCPConnection (checked under Spec)

C1_Step ==
    \A i \in Ids, ok \in BOOLEAN :
        (ReadResponse(i, ok) /\ i \in pending_requests /\ fut[i].st = "pending") =>
            /\ fut'[i] = [st |-> IF ok THEN "result" ELSE "error", val |-> i]
            /\ \A j \in Ids \ {i} : fut'[j] = fut[j]
            /\ pending_requests' = pending_requests \ {i}
            /\ UNCHANGED <<pc, out, req>>

C1_Once ==
    \A i \in Ids : fut[i].st \in {"result", "error"} => fut'[i] = fut[i]

C1_Callers ==
    \A t \in Users :
        /\ (pc[t] = "sr_wait" /\ pc'[t] = "done" /\ fut[req[t]].st = "result")
              => out'[t] = OkOut(req[t])
        /\ (pc[t] = "sr_wait" /\ pc'[t] = "done" /\ fut[req[t]].st = "error")
              => out'[t] = McpErr("remote", req[t])

\* C1: a response frame carrying the correlation id of an outstanding request
\* completes that request's future and no other, with the frame's result or
\* with the error built from its error object; a completed future never changes
\* again; and the suspended caller resumes with the payload of its own request,
\* whatever the number of outstanding requests and the order of the responses.
C1_ResponseResolvesItsCaller == [][C1_Step /\ C1_Once /\ C1_Callers]_vars

\* reached: a later request has completed with its own result while an
\* earlier one is still outstanding
C1_Witness ==
    \E t1, t2 \in Users :
        /\ pc[t1] = "sr_wait" /\ fut[req[t1]].st = "pending"
        /\ pc[t2] = "done" /\ out[t2] = OkOut(req[t2])
        /\ req[t1] < req[t2]

TimedOut(t) == req[t] # 0 /\ fut[req[t]].st = "cancelled"

C2_State ==
    \A t \in Users :
        (pc[t] = "done" /\ TimedOut(t)) =>
            /\ out[t] = McpErr("Request timeout for method", -32000)
            /\ req[t] \notin pending_requests

C2_Late ==
    \A i \in Ids, ok \in BOOLEAN :
        (ReadResponse(i, ok) /\ i \notin pending_requests) =>
            UNCHANGED <<pending_requests, fut, pc, out>>

\* C2: once the timeout of a send_request call has elapsed and the caller has
\* resumed, the id is out of pending_requests and the caller holds the
\* request-timeout MCPError; a response read for an id that is not pending
\* changes neither the pending map nor any future nor any caller.
C2_TimeoutRemovesEntry == [][C2_State' /\ C2_Late]_vars

\* reached: a caller holds the timeout error while the reader can still
\* deliver the late response to its request
C2_Witness ==
    \E t \in Users :
        /\ pc[t] = "done" /\ TimedOut(t)
        /\ wire[req[t]] # NoMethod
        /\ read_task = "running" /\ peer = "up"

\* C3: after close() has returned no caller is left suspended on a future
\* that is still pending (every outstanding request was failed).
C3_CloseFailsAllPending ==
    transport = "closed" =>
        \A t \in Tasks : Waiting(t) => fut[req[t]].st # "pending"

\* C10: when the initialize handshake has failed, connect has returned false
\* and the connection is closed: reader stopped, stream closed, nothing pending.
C10_HandshakeFailureCloses ==
    (pc["k"] = "done" /\ out["k"] = [kind |-> "connect", ret |-> FALSE]
        /\ req["k"] # 0) =>
            /\ ~connected
            /\ pending_requests = {}
            /\ closed
            /\ read_task = "done"
            /\ transport = "closed"

----------------------------------------------------------------------------
\* Claims about ZenMCPAdapter.execute_command (checked under SpecAdapter)

\* task t ends an execution of execute_command in this step
ExecEnds(t) == pc[t] \in {"idle", "ex_wait"} /\ pc'[t] = "done"
\* task t calls execute_command in this step
ExecCalled(t) == pc[t] = "idle" /\ pc'[t] # "idle"

C5_Step ==
    /\ \A t \in Users :
          /\ (ExecCalled(t) /\ connected) =>
                (pc'[t] = "ex_wait" \/ out'[t].kind = "returned")
          /\ (pc[t] = "ex_wait" /\ pc'[t] = "done") => out'[t].kind = "returned"
          /\ (ExecEnds(t) /\ out'[t].kind = "returned") =>
                history' = Append(history, out'[t].res)
    /\ history' # history =>
          \E t \in Users : ExecEnds(t) /\ (connected \/ pc[t] = "ex_wait")

\* C5: every execution of execute_command on a connected adapter ends by
\* returning a CommandResult, never by raising, and that result is the one
\* entry the execution appends to the history; the history changes in no
\* other way.
C5_OneResultPerExecution == [][C5_Step]_vars

\* reached: the history holds a success followed by a failure that a caller
\* has just been handed
C5_Witness ==
    /\ Len(history) = 2 /\ history[1].success
    /\ \E t \in Users : pc[t] = "done" /\ out[t].kind = "returned"
            /\ out[t].res.error # <<>> /\ out[t].res.error[1] = "Unexpected error in"
            /\ out[t].res = history[Len(history)]

\* C6 as stated: execute_command never ends by raising, in any adapter state.
C6_NeverRaises ==
    \A t \in Users : pc[t] = "done" => out[t].kind = "returned"

C6_Step ==
    \A t \in Users :
        /\ (ExecCalled(t) /\ connected) =>
              \/ pc'[t] = "ex_wait"
              \/ /\ out'[t].kind = "returned"
                 /\ ~out'[t].res.success /\ out'[t].res.error # <<>>
        /\ (ExecCalled(t) /\ ~connected) =>
              /\ out'[t] = NotConnectedOutcome
              /\ UNCHANGED <<history, pending_requests, wire>>
        /\ (pc[t] = "ex_wait" /\ pc'[t] = "done") =>
              /\ out'[t].kind = "returned"
              /\ out'[t].res.success = (fut[req[t]].st = "result")
              /\ ~out'[t].res.success => out'[t].res.error # <<>>

\* C6 (amended): on a connected adapter every failure of a command (remote
\* error, timeout, closed connection, unexpected exception) is returned as a
\* result with success = false and a non-empty error, never raised; on an
\* adapter that is not connected execute_command raises RuntimeError and
\* leaves history, pending map and wire untouched.
C6_FailuresAreResultsWhenConnected == [][C6_Step]_vars

\* reached: one caller holds a failed result of a connected adapter, another
\* the RuntimeError of a disconnected one
C6_Witness ==
    \E t1, t2 \in Users :
        /\ pc[t1] = "done" /\ out[t1].kind = "returned" /\ ~out[t1].res.success
        /\ out[t1].res.error[1] = "Unexpected error in"
        /\ pc[t2] = "done" /\ out[t2] = NotConnectedOutcome

\* C7: a command whose remote call timed out has returned a CommandResult
\* with success = false and an error naming the request timeout, and its
\* correlation id is no longer in the pending map.
C7_TimeoutYieldsFailedResult ==
    \A t \in Users :
        (pc[t] = "done" /\ cmd[t] # "" /\ TimedOut(t)) =>
            /\ out[t].kind = "returned"
            /\ ~out[t].res.success
            /\ out[t].res.command = cmd[t]
            /\ Len(out[t].res.error) = 3
            /\ out[t].res.error[3] = "Request timeout for method"
            /\ req[t] \notin pending_requests
            /\ \E i \in DOMAIN history : history[i] = out[t].res

\* reached: a command has timed out while the peer is still up
C7_Witness ==
    \E t \in Users :
        /\ pc[t] = "done" /\ cmd[t] # "" /\ TimedOut(t)
        /\ wire[req[t]] = ZenMethod(cmd[t])
        /\ peer = "up" /\ ~closed

----------------------------------------------------------------------------
\* Claims about EventHandler (checked under SpecDisp)

\* C4: the dispatcher produces at most one EventProcessingResult for an
\* event_id, however the calls of handle_event interleave with the worker.
C4_AtMostOneResultPerEventId ==
    \A i, j \in DOMAIN results : results[i].id = results[j].id => i = j

\* C8: events are processed in the order handle_event accepted them, and when
\* the worker begins an event every event accepted before it has completed:
\* its result was produced and the post-processors ran.
C8_FifoCompletion ==
    /\ Len(started) <= Len(accepted)
    /\ \A k \in DOMAIN started : started[k] = accepted[k]
    /\ \A k \in DOMAIN started :
          k < Len(started) => (k <= Len(results) /\ results[k].id = started[k])

\* C9: when the worker has shut down, every event it had dequeued was
\* finished: its result was produced and its id is in the dedup set.
C9_StopLetsEventFinish ==
    wtask = "done" =>
        /\ Len(results) = Len(started)
        /\ \A k \in DOMAIN started : started[k] \in processed

----------------------------------------------------------------------------
\* Claims about the handshake (checked under SpecAdapter)

\* the initialize request of the connection has been resolved with a result
InitializeResolved ==
    /\ req["k"] # 0
    /\ wire[req["k"]] = <<"initialize">>
    /\ fut[req["k"]].st = "result"

\* C11: the first request frame written on the connection is initialize; a
\* command request (zen__<command>) is on the wire only if the initialize
\* request was resolved with a result before; and the adapter is connected
\* only after that.
C11_InitializeFirst ==
    /\ transport # "none" => wire[1] = <<"initialize">>
    /\ \A i \in Ids : wire[i] # NoMethod => wire[1] = <<"initialize">>
    /\ \A i \in Ids :
          (wire[i] # NoMethod /\ wire[i][1] = "zen__") => (i > req["k"] /\ InitializeResolved)
    /\ connected => InitializeResolved

\* reached: a command request was written on a connected adapter
C11_Witness ==
    /\ connected
    /\ \E i \in Ids : wire[i] # NoMethod /\ wire[i][1] = "zen__"

----------------------------------------------------------------------------
\* Claims about the commands of one event (checked under SpecDisp)

\* the command requests written and not yet answered, timed out or failed
CommandsInFlight ==
    {i \in Ids : wire[i] # NoMethod /\ wire[i][1] = "zen__" /\ fut[i].st = "pending"}

\* the commands of the results in crs, in order
CommandsOf(crs) == [k \in DOMAIN crs |-> crs[k].command]

\* C12: within one event the configured commands run one after another in
\* the order of the configured list: while command number ci is being called
\* the results of exactly the ci - 1 commands before it have been collected,
\* in list order, and no other command request is in flight; and the
\* command_results of every result list its triggered commands in order.
C12_CommandsSequential ==
    /\ Cardinality(CommandsInFlight) <= 1
    /\ pc["w"] \in {"w_cmd", "w_wait"} =>
          LET cmds == get_event_commands(wev.event_type)
          IN  /\ ci \in 1..(Len(cmds) + 1)
              /\ CommandsOf(cres) = SubSeq(cmds, 1, ci - 1)
              /\ pc["w"] = "w_wait" =>
                    /\ ci <= Len(cmds)
                    /\ cmd["w"] = cmds[ci]
                    /\ wire[req["w"]] = ZenMethod(cmds[ci])
                    /\ CommandsInFlight \subseteq {req["w"]}
    /\ \A k \in DOMAIN results :
          LET r == results[k].res
          IN  r.triggered_commands # <<>> =>
                CommandsOf(r.command_results) = r.triggered_commands

\* reached: a result whose two commands both went to the server, the second
\* one failing
C12_Witness ==
    \E k \in DOMAIN results :
        LET r == results[k].res
        IN  /\ Len(r.command_results) = 2
            /\ r.command_results[1].success
            /\ ~r.command_results[2].success
            /\ Len(history) = 2

----------------------------------------------------------------------------
\* Claims about the reader loop (checked under SpecReader)

\* the calls expected for a notification of a method: every handler
\* registered for it, once, in registration order
ExpectedCalls(method) ==
    LET hs == Get(notification_handlers, method, <<>>)
    IN  [k \in 1..Len(hs) |-> [method |-> method, index |-> k, handler |-> hs[k]]]

C13_Step ==
    \A method \in Methods :
        ReadNotification(method) =>
            /\ invoked' = ExpectedCalls(method)
            /\ read_task' = "running"
            /\ UNCHANGED <<pending_requests, fut, notification_handlers>>

\* C13: reading a notification frame calls every handler registered for its
\* method once, in registration order, whether or not earlier handlers
\* raised, calls no handler of another method, and leaves the reader running.
C13_HandlersInOrder == [][C13_Step]_vars

\* reached: two handlers of one method were called for a frame, the first of
\* which raised, and the reader is still running with a request outstanding
C13_Witness ==
    /\ Len(invoked) = 2
    /\ invoked[1].handler = "raise" /\ invoked[2].handler = "ok"
    /\ invoked[1].method = invoked[2].method
    /\ read_task = "running"
    /\ pending_requests # {}

C14_Step ==
    /\ ReadMalformed => UNCHANGED <<pending_requests, fut, read_task>>
    /\ \A i \in Ids :
          ReadErrorNotObject(i) => UNCHANGED <<pending_requests, fut, read_task>>

\* C14: a frame that cannot be decoded, or whose dispatch raises, is dropped
\* in isolation: the pending map and the futures are as before and the
\* reader keeps running.
C14_BadFrameDropped == [][C14_Step]_vars

----------------------------------------------------------------------------
\* Claims about the commands an event triggers (checked under SpecDisp)

\* the command requests written for the commands of an event type
FramesOf(type) ==
    {i \in Ids : /\ wire[i] # NoMethod /\ wire[i][1] = "zen__"
                 /\ \E k \in DOMAIN get_event_commands(type) :
                        wire[i][2] = get_event_commands(type)[k]}

\* the context of the critical error_detected event
ErrorContext ==
    [event_type |-> "error_detected",
     event_data |-> [error_message |-> "boom", severity |-> "critical"],
     event_metadata |-> [source |-> "error_handler", priority |-> "critical",
                         category |-> "error"]]

\* C15: an error_detected event of severity critical triggers both configured
\* commands, debug and tracer, in every result produced for it; and the
\* parameters of every command request written, whatever the command's
\* family, hold a context with the event's event_type, data and metadata.
C15_ContextForEveryCommand ==
    /\ \A k \in DOMAIN results :
          LET r == results[k].res
          IN  (r.event.event_type = "error_detected" /\ r.error = "") =>
                /\ r.triggered_commands = <<"debug", "tracer">>
                /\ CommandsOf(r.command_results) = <<"debug", "tracer">>
    /\ \A i \in Ids :
          (wire[i] # NoMethod /\ wire[i][1] = "zen__") =>
              /\ i \in FramesOf("error_detected")
              /\ "context" \in DOMAIN sent_params[i]
              /\ sent_params[i]["context"] = ErrorContext
    /\ pc["w"] = "w_wait" =>
          /\ sent_params[req["w"]]["context"]["event_type"] = wev.event_type
          /\ sent_params[req["w"]]["context"]["event_data"] = wev.data

\* reached: the result of the critical error event, with the requests of
\* debug and of tracer (another family) both written
C15_Witness ==
    /\ \E k \in DOMAIN results :
          /\ results[k].res.event.event_type = "error_detected"
          /\ Len(results[k].res.command_results) = 2
    /\ \E i, j \in Ids :
          /\ wire[i] = ZenMethod("debug") /\ "step" \in DOMAIN sent_params[i]
          /\ wire[j] = ZenMethod("tracer") /\ "target_description" \in DOMAIN sent_params[j]
          /\ "step" \notin DOMAIN sent_params[j]

----------------------------------------------------------------------------
\* Claims about events that fail their conditions (checked under SpecDisp)

\* the vacuous result of an event
VacuousResult(e) == EventProcessingResult(e, <<>>, <<>>, TRUE, "")

C16_Step ==
    /\ (W_Dequeue /\ Head(event_queue).event_type = "code_changed") =>
          /\ wres' = VacuousResult(Head(event_queue))
          /\ pc'["w"] = "w_finish"
          /\ UNCHANGED <<history, wire, sent_params, pending_requests, nextId>>
    /\ (W_Finish /\ cur.event_type = "code_changed") =>
          /\ results' = Append(results, [id |-> cur.event_id, res |-> VacuousResult(cur)])
          /\ UNCHANGED <<history, wire, sent_params, pending_requests, nextId>>

C16_State ==
    /\ FramesOf("code_changed") = {}
    /\ \A k \in DOMAIN history : history[k].command \notin {"codereview", "refactor"}

\* C16: a code_changed event with lines_changed = 5 fails the condition
\* min_lines = 10: its result has no triggered commands, no command results
\* and success = true, and processing it calls the adapter for no command:
\* history, wire and pending map are unchanged.
C16_NoMatchIsVacuousSuccess == [][C16_Step /\ C16_State']_vars

\* reached: the vacuous result of the code_changed event was produced after
\* the commands of another event had gone to the adapter
C16_Witness ==
    /\ Len(history) = 2
    /\ \E k \in DOMAIN results :
          /\ results[k].res.event.event_type = "code_changed"
          /\ results[k].res.success
          /\ results[k].res.triggered_commands = <<>>

----------------------------------------------------------------------------
\* Claims about MISEvent.matches_conditions (checked under SpecMatch)

\* the event has a file path that ends in ".py"
EndsInDotPy ==
    /\ "file_path" \in DOMAIN mc_data
    /\ LET p == mc_data["file_path"]
           n == Len(p)
       IN  n >= 3 /\ p[n - 2] = "." /\ p[n - 1] = "p" /\ p[n] = "y"

\* C18: matches_conditions({}) is true for every event, and
\* matches_conditions({extensions: [".py"]}) is true exactly for the events
\* whose file_path ends in ".py" (so false for an event without file_path).
C18_EmptyAndExtensions ==
    mc_ret # "none" =>
        /\ DOMAIN mc_conditions = {} => mc_ret = "True"
        /\ (DOMAIN mc_conditions = {"extensions"} /\ mc_conditions["extensions"] = {DotPy})
              => (mc_ret = "True" <=> EndsInDotPy)

\* reached: the extension condition accepted a path ending in ".py" (and,
\* in other states, rejected paths that hold ".py" elsewhere or not at all)
C18_Witness ==
    /\ mc_ret = "True"
    /\ DOMAIN mc_conditions = {"extensions"} /\ mc_conditions["extensions"] = {DotPy}
    /\ mc_data["file_path"] = PyPath
    /\ "severity" \in DOMAIN mc_data

\* C19: matches_conditions is the AND over the condition keys, and an event
\* that lacks the field of a special key (file_path for extensions, severity
\* for severity, lines_changed for min_lines) is rejected whatever the value
\* of the condition; a mismatch on one key rejects; a non-special key absent
\* from the data does not reject.
C19_AbsentFieldRejects ==
    mc_ret # "none" =>
        /\ ("extensions" \in DOMAIN mc_conditions /\ "file_path" \notin DOMAIN mc_data)
              => mc_ret = "False"
        /\ ("severity" \in DOMAIN mc_conditions /\ "severity" \notin DOMAIN mc_data)
              => mc_ret = "False"
        /\ ("min_lines" \in DOMAIN mc_conditions /\ "lines_changed" \notin DOMAIN mc_data)
              => mc_ret = "False"
        /\ ("branch" \in DOMAIN mc_conditions /\ "branch" \in DOMAIN mc_data
               /\ mc_data["branch"] # mc_conditions["branch"]) => mc_ret = "False"

----------------------------------------------------------------------------
\* Claims about ZenMCPAdapter.get_command_stats (checked under SpecStats)

\* the history entries of command c
EntriesOf(c) == {k \in DOMAIN history : history[k].command = c}

RECURSIVE TimeOf(_)
\* the execution times of the entries K, added up
TimeOf(K) ==
    IF K = {} THEN 0
    ELSE LET k == CHOOSE x \in K : TRUE IN history[k].execution_time + TimeOf(K \ {k})

\* C17: get_command_stats reports for every command of the history its
\* number of entries, how many succeeded and how many failed (the two add up
\* to the total), the sum of the execution times and their average; three
\* runs of 1 s, 2 s and 3 s of which the last failed give 3, 2, 1 and an
\* average of 2.
C17_StatsFromHistory ==
    stats # NoStats =>
        /\ DOMAIN stats = {history[k].command : k \in DOMAIN history}
        /\ \A c \in DOMAIN stats :
              LET n == Cardinality(EntriesOf(c))
                  ok == Cardinality({k \in EntriesOf(c) : history[k].success})
                  bad == Cardinality({k \in EntriesOf(c) : ~history[k].success})
              IN  /\ stats[c].total_executions = n
                  /\ stats[c].successful = ok
                  /\ stats[c].failed = bad
                  /\ stats[c].successful + stats[c].failed = stats[c].total_executions
                  /\ stats[c].total_time = TimeOf(EntriesOf(c))
                  /\ stats[c].avg_time.num * n = stats[c].total_time * stats[c].avg_time.den
        /\ (\A k \in DOMAIN history : history[k].command = "chat") =>
              ((Len(history) = 3 /\ history[1].execution_time = 1 /\ history[1].success
                  /\ history[2].execution_time = 2 /\ history[2].success
                  /\ history[3].execution_time = 3 /\ ~history[3].success)
               => stats["chat"] =
                    [total_executions |-> 3, successful |-> 2, failed |-> 1,
                     total_time |-> 6, avg_time |-> [num |-> 2, den |-> 1]])

\* reached: the statistics of two successes and a failure of one command, of
\* 1 s, 2 s and 3 s
C17_Witness ==
    /\ stats # NoStats
    /\ Len(history) = 3
    /\ \A k \in DOMAIN history : history[k].command = "chat" /\ history[k].execution_time = k
    /\ history[1].success /\ history[2].success /\ ~history[3].success
    /\ stats["chat"].avg_time = [num |-> 2, den |-> 1]

----------------------------------------------------------------------------
\* Claims about execute_command without a connection (checked under SpecAdapter)

C20_Step ==
    \A t \in Users :
        (ExecCalled(t) /\ ~connected) =>
            /\ pc'[t] = "done"
            /\ out'[t].kind = "raised"
            /\ out'[t].msg = "Not connected to zen-MCP server"
            /\ UNCHANGED <<wire, sent_params, pending_requests, fut, nextId, history>>
            /\ UNCHANGED <<transport, read_task, closed>>

\* C20: execute_command on an adapter that is not connected (never connected,
\* failed to connect, or disconnected) fails at once: the call ends in the
\* same step with the not-connected error, no frame is written, no request
\* is registered and the history is unchanged.
C20_NotConnectedNoNetwork == [][C20_Step]_vars

\* reached: a command was refused after disconnect, with an earlier command
\* of the same adapter in the history
C20_Witness ==
    /\ ~connected /\ transport = "closed" /\ closeVia = "adapter"
    /\ Len(history) = 1
    /\ \E t \in Users : pc[t] = "done" /\ out[t].kind = "raised"

----------------------------------------------------------------------------
\* Claims about repeated close (checked under SpecClose)

\* a close() has returned on this connection
CloseReturned == closed /\ transport = "closed" /\ closePc = "idle"

C21_Step ==
    (CloseReturned /\ CloseBegin("direct")) =>
        /\ closePc' = "idle"
        /\ closed' /\ transport' = "closed" /\ read_task' = "done"
        /\ UNCHANGED <<closed, read_task, transport, peer, pending_requests, fut, wire>>
        /\ UNCHANGED <<pc, out>>

----------------------------------------------------------------------------
\* Claims about the model parameter (checked under SpecModel)

\* the three tiers, as the specification names them
Tier(c) ==
    CASE c \in {"thinkdeep", "secaudit", "consensus"} -> "gemini-2.5-pro"
      [] c \in {"chat", "listmodels", "version"} -> "gemini-2.5-flash"
      [] OTHER -> "o3-mini"

C22_Step ==
    \A c \in CommandPool, params \in ParamPool, wfail \in BOOLEAN :
        (connected /\ ~closed /\ execute_command("u1", c, params, wfail)) =>
            /\ wire'[nextId] = ZenMethod(c)
            /\ DOMAIN sent_params'[nextId] = DOMAIN params \cup {"model"}
            /\ \A k \in DOMAIN params : sent_params'[nextId][k] = params[k]
            /\ "model" \notin DOMAIN params => sent_params'[nextId].model = Tier(c)

\* C22: the frame execute_command writes carries the caller's params and a
\* model: the caller's own when the params have the key, otherwise the
\* default of the command name (thinkdeep, secaudit, consensus: most
\* capable tier; chat, listmodels, version: fast tier; any other name:
\* middle tier).
C22_DefaultModelByTier == [][C22_Step]_vars

\* reached: the frame of a fast-tier command whose caller gave a prompt and
\* no model
C22_Witness ==
    \E i \in Ids :
        /\ wire[i] = ZenMethod("chat")
        /\ sent_params[i] = [prompt |-> "hi", model |-> "gemini-2.5-flash"]
        /\ pc["u1"] = "ex_wait" /\ req["u1"] = i

----------------------------------------------------------------------------
\* Claims about enqueueing during command execution (checked under SpecDisp)

\* what a call of handle_event does and leaves alone
C23_Returns(e) ==
    /\ event_queue' \in {event_queue, Append(event_queue, e)}
    /\ UNCHANGED <<pc, cur, ci, cres, processed, results>>
    /\ UNCHANGED <<pending_requests, fut, wire, history>>

\* C23: handle_event never waits for processing: whenever the event loop can
\* run it, also while the worker is suspended inside a command whose
\* response has not arrived, the call completes in one step that at most
\* appends the event to the queue and touches nothing of the worker.
C23_HandleEventNeverWaits ==
    \A e \in EventPool :
        (~WorkerBusy /\ Len(accepted) < MaxAccepted) =>
            /\ ENABLED handle_event(e)
            /\ ~ENABLED (handle_event(e) /\ ~C23_Returns(e))

\* reached: the worker is suspended in the first command of an event with
\* the response outstanding, an event is queued behind it, and handle_event
\* can be called again
C23_Witness ==
    /\ pc["w"] = "w_wait" /\ fut[req["w"]].st = "pending"
    /\ started = <<1>> /\ ci = 1 /\ history = <<>>
    /\ Len(event_queue) = 1
    /\ Len(accepted) = 2
    /\ \A e \in EventPool : ENABLED (handle_event(e) /\ Len(event_queue') = 2)

----------------------------------------------------------------------------
\* Claims about the lifetime of pending entries (checked under Spec)

\* C24: an id is in pending_requests from the moment its request is written
\* until the request ends: a caller still waiting for an uncompleted future
\* has its id in the map, every id in the map belongs to a caller that is
\* still inside send_request, and once send_request has returned or raised
\* (response, error response, timeout, failed write, closed connection) its
\* id is not in the map.
C24_PendingLifecycle ==
    /\ \A t \in Tasks :
          (Waiting(t) /\ fut[req[t]].st = "pending") => req[t] \in pending_requests
    /\ \A i \in pending_requests : \E t \in Tasks : Waiting(t) /\ req[t] = i
    /\ \A t \in Tasks :
          (pc[t] = "done" /\ req[t] # 0) => req[t] \notin pending_requests

\* reached: one caller's send_request raised connection-closed, the other's
\* raised the timeout error, and neither id is in the map
C24_Witness ==
    /\ pc["u1"] = "done" /\ out["u1"] = McpErr("Connection closed", -32000)
    /\ pc["u2"] = "done" /\ out["u2"] = McpErr("Request timeout for method", -32000)
    /\ pending_requests = {}

----------------------------------------------------------------------------
\* Claims about end-of-stream (checked under SpecLive)

\* the reader leaves its loop by itself: readline returned end-of-stream
ReaderSeesEOF == read_task = "running" /\ read_task' = "done"

ConnectionClosedError == McpErr("Connection closed", -32000)

C25_Step ==
    ReaderSeesEOF =>
        /\ \A i \in pending_requests :
              fut[i].st = "pending" => fut'[i] = [st |-> "closed", val |-> -32000]
        /\ \A t \in Tasks :
              (Waiting(t) /\ fut[req[t]].st = "pending") => fut'[req[t]].st = "closed"
        /\ \A i \in Ids : fut[i].st # "pending" => fut'[i] = fut[i]

\* C25: when the reader reads end-of-stream, every request that is still
\* pending is completed with the connection-closed error (code -32000) in
\* that step, requests that had already completed keep their outcome, and
\* every caller waiting on a request completed this way resumes with that
\* error.
C25_EOFFailsPending ==
    /\ [][C25_Step]_vars
    /\ \A t \in Users :
          (pc[t] = "sr_wait" /\ fut[req[t]].st = "closed")
              ~> (pc[t] = "done" /\ out[t] = ConnectionClosedError)

\* reached: the peer closed the stream with two requests outstanding, close()
\* was never called, and both callers have resumed with the error
C25_Witness ==
    /\ ~closed /\ peer = "down" /\ read_task = "done"
    /\ \A t \in Users : pc[t] = "done" /\ out[t] = ConnectionClosedError
    /\ req["u1"] # req["u2"]

----------------------------------------------------------------------------
\* Claims about the progress of the worker (checked under SpecWorker)

RECURSIVE CommandsQueued(_)
\* the commands configured for the first k events of the queue
CommandsQueued(k) ==
    IF k = 0 THEN 0
    ELSE Len(get_event_commands(event_queue[k].event_type)) + CommandsQueued(k - 1)

\* the commands of the event in hand that are still to be sent
CommandsAhead ==
    LET n == Len(get_event_commands(wev.event_type))
    IN  CASE pc["w"] = "w_cmd" -> n + 1 - ci
          [] pc["w"] = "w_wait" -> n - ci
          [] OTHER -> 0

\* the request ids of the model suffice for the events up to the n-th accepted
IdsSuffice(n) ==
    LET ahead == IF n > Len(started) THEN n - Len(started) ELSE 0
    IN  \/ ~connected
        \/ CommandsAhead + CommandsQueued(ahead) <= MaxReq + 1 - nextId

\* the results are those of the dequeued events, one each, in queue order
C26_OneResultEach ==
    /\ Len(started) <= Len(accepted)
    /\ Len(results) \in {Len(started), Len(started) - 1}
    /\ \A k \in 1..Len(started) : started[k] = accepted[k]
    /\ \A k \in 1..Len(results) : results[k].id = accepted[k]

C26_Handled(n) == Len(results) >= n /\ results[n].id = accepted[n]

\* C26: while the dispatcher is started, every event that was placed on the
\* queue is eventually dequeued and gets exactly one result, whatever
\* happened to the events before it (a pre-processor raised, the conditions
\* could not be evaluated, a command failed or the adapter threw, a
\* post-processor raised).
C26_EveryEventProcessed ==
    /\ []C26_OneResultEach
    /\ \A n \in 1..MaxAccepted :
          (running /\ Len(accepted) >= n /\ IdsSuffice(n)) ~> C26_Handled(n)

\* reached: the first event failed on its conditions, both commands of the
\* second were sent and failed in the adapter, a post-processor raised for
\* each event, and both events have their result
C26_Witness ==
    /\ Len(results) = 2 /\ Len(accepted) = 2
    /\ results[1].id = BadLinesEvent.event_id
    /\ results[1].res.error = "exception" /\ ~results[1].res.success
    /\ Len(results[2].res.command_results) = 2
    /\ \A k \in 1..2 : ~results[2].res.command_results[k].success
    /\ Len(history) = 2
    /\ post_processors = <<"raise">>
    /\ Len(postLog) = 2

----------------------------------------------------------------------------
\* Claims about the outcome of an event (checked under SpecOutcomes)

\* handle_event(e) puts nothing on the queue
Dropped(e) == ~ENABLED (handle_event(e) /\ event_queue' # event_queue)

\* C27: every event for which the worker has aggregated a result is in the
\* dedup set, whatever the result (conditions not met, every command
\* succeeded, a command failed, processing raised), and handle_event drops
\* an event with that event_id.
C27_ProcessedIsMarked ==
    \A k \in 1..Len(results) :
        /\ results[k].id \in processed
        /\ \A e \in EventPool \cup {BadLinesEvent} :
              e.event_id = results[k].id => Dropped(e)

\* reached: three events were processed, one whose conditions were not met,
\* one whose processing raised and one with a failed command; all three
\* ids are in the dedup set
C27_Witness ==
    /\ Len(results) = 3
    /\ \E k \in 1..3 : results[k].res.success /\ results[k].res.triggered_commands = <<>>
    /\ \E k \in 1..3 : results[k].res.error = "exception"
    /\ \E k \in 1..3 : /\ Len(results[k].res.command_results) = 2
                        /\ ~results[k].res.success
                        /\ results[k].res.command_results[2].success
    /\ Cardinality(processed) = 3

----------------------------------------------------------------------------
\* Claims about a command for which the adapter raises (checked under SpecDisp)

\* the CommandResult that stands for the adapter's not-connected exception
ThrownResult(c) == CommandResult(c, FALSE, 0, <<"Not connected to zen-MCP server">>)

\* C28: the result of an event that matched its conditions has one
\* CommandResult for each configured command, in the configured order; each
\* is either what the adapter returned or, where the adapter raised because
\* it was not connected, a failed CommandResult carrying the message of the
\* exception, and the commands after it were still attempted.
C28_ThrowBecomesFailedResult ==
    \A k \in 1..Len(results) :
        LET r == results[k].res
            cmds == get_event_commands(r.event.event_type)
        IN  (r.error = ""
                /\ matches_conditions(r.event.data, get_event_conditions(r.event.event_type)))
            => /\ r.triggered_commands = cmds
               /\ Len(r.command_results) = Len(cmds)
               /\ \A j \in 1..Len(cmds) :
                     /\ r.command_results[j].command = cmds[j]
                     /\ \/ \E h \in 1..Len(history) : history[h] = r.command_results[j]
                        \/ r.command_results[j] = ThrownResult(cmds[j])
               /\ r.success = \A j \in 1..Len(cmds) : r.command_results[j].success

\* reached: the adapter answered the first command of an event, was
\* disconnected, and raised for the second; the result has both
C28_Witness ==
    \E k \in 1..Len(results) :
        LET r == results[k].res
        IN  /\ Len(r.command_results) = 2
            /\ r.command_results[1].success
            /\ r.command_results[2] = ThrownResult("tracer")
            /\ Len(history) = 1

----------------------------------------------------------------------------
\* Claims about post-processors (checked under SpecPost)

\* the calls C29 expects for a result: every registered post-processor, once,
\* in registration order
C29_Calls(r) ==
    [k \in 1..Len(post_processors) |->
        [proc |-> k, processor |-> post_processors[k], id |-> r.id, res |-> r.res]]

C29_Step ==
    /\ Len(results') = Len(results) + 1 =>
          /\ postLog' = postLog \o C29_Calls(results'[Len(results')])
          /\ results'[Len(results')].id = cur.event_id
          /\ running => (pc'["w"] = "w_get" /\ wtask' = "alive")
    /\ postLog' # postLog => Len(results') = Len(results) + 1

\* C29: when the worker has aggregated the result of an event, it calls
\* every registered post-processor exactly once, in registration order,
\* with that result, also those registered after one that raises, and then
\* waits for the next event; post-processors are called at no other time.
C29_PostProcessorsAllCalled == [][C29_Step]_vars

\* reached: two post-processors, the first of which raises, were both called
\* for two events in turn, and the worker waits for the next event
C29_Witness ==
    /\ post_processors = <<"raise", "record">>
    /\ Len(results) = 2 /\ Len(postLog) = 4
    /\ \A k \in 1..4 : postLog[k].proc = 2 - (k % 2)
    /\ postLog[2].res = results[1].res /\ postLog[4].res = results[2].res
    /\ results[1].id # results[2].id
    /\ pc["w"] = "w_get"

----------------------------------------------------------------------------
\* Claims about the trim of the dedup set (checked under SpecTrim)

\* the ids of the n events processed last
MostRecent(n) == {started'[k] : k \in (Len(started') - n + 1)..Len(started')}

C30_Step ==
    (started' # started /\ Cardinality(processed) = TrimLimit) =>
        /\ Cardinality(processed') = TrimKeep
        /\ processed' = MostRecent(TrimKeep)

\* C30: the dedup set is trimmed when it has come to hold more ids than the
\* limit, and after the trim it consists of exactly the ids of the events
\* processed last, as many as the trim keeps.
C30_TrimKeepsNewest == [][C30_Step]_vars

----------------------------------------------------------------------------
\* Claims about the success flag of a result (checked under SpecOutcomes)

\* the conjunction of the success flags of a result's command_results
C31_Conjunction(r) == \A j \in 1..Len(r.command_results) : r.command_results[j].success

\* C31 as stated: in every result the success flag is the conjunction of
\* the success flags of its command_results, true when there are none.
C31_SuccessIsConjunction ==
    \A k \in 1..Len(results) : results[k].res.success = C31_Conjunction(results[k].res)

\* C31 as the code has it: in every result produced without an exception
\* the success flag is the conjunction of the success flags of its
\* command_results (true when there are none); a result produced by the except
\* branch of _process_single_event has no command_results and success false.
C31_SuccessIsConjunctionUnlessRaised ==
    \A k \in 1..Len(results) :
        LET r == results[k].res
        IN  /\ r.error = "" => r.success = C31_Conjunction(r)
            /\ r.error # "" => (~r.success /\ r.command_results = <<>>)

\* reached: a result whose first command failed and whose second succeeded,
\* a result without commands that is a success, and a result of the except
\* branch
C31_Witness ==
    /\ \E k \in 1..Len(results) :
          LET r == results[k].res
          IN  /\ Len(r.command_results) = 2 /\ ~r.success
              /\ ~r.command_results[1].success /\ r.command_results[2].success
    /\ \E k \in 1..Len(results) :
          results[k].res.command_results = <<>> /\ results[k].res.success
    /\ \E k \in 1..Len(results) :
          results[k].res.error = "exception" /\ ~results[k].res.success

----------------------------------------------------------------------------
\* Claims about the filters of handle_event (checked under SpecFilter)

\* every filter called by the last handle_event answered true
C32_AllTrue(log) == \A k \in 1..Len(log) : log[k].answer = "true"

\* handle_event(e) for an event that is not a duplicate and that no filter
\* raises on
C32_Handled(e) ==
    /\ handle_event(e)
    /\ e.event_id \notin processed
    /\ \A k \in 1..Len(event_filters) : ApplyFilter(event_filters[k], e) # "raise"

C32_Step ==
    \A e \in EventPool : C32_Handled(e) =>
        LET log == filterLog'
            n == Len(log)
        IN  /\ n <= Len(event_filters)
            /\ \A k \in 1..n :
                  /\ log[k].filter = k /\ log[k].id = e.event_id
                  /\ log[k].answer = ApplyFilter(event_filters[k], e)
            /\ \A k \in 1..(n - 1) : log[k].answer = "true"
            /\ n < Len(event_filters) => (n >= 1 /\ log[n].answer = "false")
            /\ ~C32_AllTrue(log) => UNCHANGED <<event_queue, processed, accepted>>
            /\ C32_AllTrue(log) =>
                  /\ event_queue' = Append(event_queue, e)
                  /\ accepted' = Append(accepted, e.event_id)
                  /\ processed' = processed

\* C32: handle_event calls the registered filters in registration order and
\* stops at the first one that returns false: the event is dropped, the later
\* filters are not called, and the queue and the dedup set are unchanged; an
\* event that every filter lets pass and whose id is not in the dedup set is
\* appended to the queue exactly once.
C32_FiltersInOrderUntilFalse == [][C32_Step]_vars

\* reached: of two filters the first dropped the code event, so the second
\* was not called, after the error event had passed both and was queued
C32_Witness ==
    /\ event_filters = <<"errors_only", "accept">>
    /\ filterLog = <<[filter |-> 1, id |-> 2, answer |-> "false"]>>
    /\ accepted = <<1>>
    /\ Len(event_queue) = 1 /\ event_queue[1].event_id = 1

\* C33: an exception raised by a registered callback is caught where the
\* callback is called; for a filter: whatever the filters do, handle_event
\* returns to its caller and raises nothing.
C33_FilterExceptionCaught == HandleEventOutcome(filterLog) = "returned"

----------------------------------------------------------------------------
\* Claims about the event factories (checked under SpecFactory)

\* C34: the factories assign priority by a fixed table: a file event has low
\* priority and the file-system category; an error event has low priority
\* for severity warning, high for error, critical for critical and medium
\* for any other severity; every event of type test_failed has high priority
\* and every event of type test_passed low; a security alert is critical.
C34_PriorityTable ==
    fc_ret # NoEvent =>
        LET m == to_dict(fc_ret.metadata)
        IN  /\ fc_args.factory = "create_file_event" =>
                  (m.priority = "low" /\ m.category = "file_system")
            /\ fc_args.factory = "create_error_event" =>
                  m.priority = (CASE fc_args.s2 = "warning" -> "low"
                                  [] fc_args.s2 = "error" -> "high"
                                  [] fc_args.s2 = "critical" -> "critical"
                                  [] OTHER -> "medium")
            /\ fc_ret.event_type = "test_failed" => m.priority = "high"
            /\ fc_ret.event_type = "test_passed" => m.priority = "low"
            /\ fc_ret.event_type = "security_alert" => m.priority = "critical"

----------------------------------------------------------------------------
\* Claims about requests sent after end-of-stream (checked under SpecEOF)

\* task t waits, with no timeout, on a request it sent after the reader had
\* ended at end-of-stream, and close() has not been called
C35_SentAfterEOF(t) ==
    /\ pc[t] = "sr_wait" /\ ~tmo[t]
    /\ fut[req[t]].st = "pending"
    /\ read_task = "done" /\ ~closed

\* C35: a request sent after the reader loop has ended at end-of-stream
\* does not stay pending forever: its caller gets an outcome, at the latest
\* when close() has been called, also when it was sent with no timeout.
C35_RequestAfterEOFEnds ==
    \A t \in Users : C35_SentAfterEOF(t) ~> pc[t] = "done"

----------------------------------------------------------------------------
\* Claims about the pending map under cancellation (checked under SpecDisp)

\* C36: pending_requests holds only correlation ids of send_request calls
\* that are still suspended; in particular the entry of a call whose task was
\* cancelled (the worker, cancelled by stop() during a command) is removed.
C36_PendingOnlySuspended ==
    \A i \in pending_requests : \E t \in Tasks : Waiting(t) /\ req[t] = i

----------------------------------------------------------------------------
\* Claims about asynchronous notification handlers (checked under SpecHandler)

\* a frame is read in this step: a response completes a future, or handlers
\* are called for a new notification
C37_FrameRead ==
    \/ \E i \in Ids : fut[i].st = "pending" /\ fut'[i].st \in {"result", "error"}
    \/ invoked' # invoked /\ pc'["h"] = "nh_wait"

C37_Step ==
    /\ read_task = "handling" => ~C37_FrameRead
    /\ (pc["h"] = "nh_wait" /\ pc'["h"] # "nh_wait") =>
          fut[req["h"]].st \notin {"result", "error"}

\* C37: notification handlers run inline in the reader task: while an
\* asynchronous handler is suspended no further frame is read, so no pending
\* request is completed by a response until the handler returns, and a
\* handler that awaits send_request on the same connection never gets the
\* response to that request.
C37_HandlersRunInline == [][C37_Step]_vars

\* reached: the reader is suspended in a handler whose request is on the wire
\* with no timeout while a direct caller also waits for a response, the peer
\* being up
C37_Witness ==
    /\ read_task = "handling" /\ peer = "up" /\ ~closed
    /\ pc["h"] = "nh_wait" /\ ~tmo["h"]
    /\ wire[req["h"]] # NoMethod /\ fut[req["h"]].st = "pending"
    /\ pc["u1"] = "sr_wait" /\ fut[req["u1"]].st = "pending"
    /\ wire[req["u1"]] # NoMethod

----------------------------------------------------------------------------
\* Claims about start() and stop() (checked under SpecDisp)

\* no call of stop() is in progress and the dispatcher is not running
C38_Stopped == stopPc = "idle" /\ ~running

\* the worker task as the flags describe it
C38_State ==
    /\ running => wtask = "alive"
    /\ C38_Stopped => wtask \in {"none", "done"}
    /\ wtask \in {"none", "done"} => pc["w"] = "idle"

C38_Step == (C38_Stopped /\ C38_Stopped') => UNCHANGED <<wtask, pc, cur, started, results>>

----------------------------------------------------------------------------
\* Claims about connect() and a silent peer (checked under SpecConnect)

\* the peer has closed nothing and no answer to the initialize request has
\* been read
C39_PeerSilent ==
    /\ transport # "none" => peer = "up"
    /\ req["k"] # 0 => fut[req["k"]].st \notin {"result", "error"}

\* C39: connect() terminates: when the peer has accepted the transport and
\* neither answers the initialize request nor closes the stream, connect
\* still returns or raises at some time.
C39_ConnectTerminates ==
    []C39_PeerSilent => (pc["k"] = "hs_wait" ~> pc["k"] = "done")

----------------------------------------------------------------------------
\* Claims about pre-processors and the dedup set (checked under SpecPre)

\* the event with this id that the producers hand in
C40_EventOf(id) == CHOOSE e \in EventPool \cup {BadLinesEvent} : e.event_id = id

\* C40: the id the worker adds to the dedup set is the event_id of the
\* event as dequeued, not that of a replacement made by a pre-processor: the
\* dedup set holds only ids of events taken from the queue, among them the
\* id of every event that has a result, and the event stored in a result is
\* what the pre-processors made of the dequeued event.
C40_DedupIdIsDequeuedId ==
    /\ processed \subseteq {started[k] : k \in 1..Len(started)}
    /\ \A k \in 1..Len(results) :
          /\ results[k].id = started[k]
          /\ results[k].id \in processed
          /\ results[k].res.event = PreFrom(C40_EventOf(started[k]), 1).event

\* reached: with a renaming pre-processor the result of event 1 holds the
\* replacement, whose id is 11, and the dedup set holds 1
C40_Witness ==
    /\ pre_processors = <<"rename">>
    /\ Len(results) >= 1
    /\ results[1].id = 1 /\ results[1].res.event.event_id = 11
    /\ results[1].res.command_results # <<>>
    /\ processed = {1}

====
